---- MODULE Spec2Model ----
(***************************************************************************)
(* Flowmancer schema designer: the entity/attribute graph kept by the      *)
(* SchemaDesigner component (frontend/src/App.tsx and its later revision), *)
(* the attribute editor modal, and the payload sent for code generation.   *)
(*                                                                         *)
(* Strings are sequences of one-character strings, so that trim(),         *)
(* toLowerCase(), template literals and === are computed, not assumed.     *)
(* Optional values (undefined / null) are sequences of length 0 or 1.      *)
(***************************************************************************)
EXTENDS Integers, Sequences, FiniteSets, TLC

VARIABLES
    revision,              \* which revision of App.tsx runs: "tsx" or "p5"
    now,                   \* the value Date.now() returns
    entities,              \* useState<Entity[]>
    selectedEntityId,      \* useState<string | null>, NullId when null
    entityCounter,         \* useState<number>
    isAttributeModalOpen,  \* useState(false)
    editingAttribute,      \* useState<Attribute | null>, as an optional
    form,                  \* the antd form store of the attribute editor
    isFk,                  \* AttributeEditorModal's useState(false)
    nnDisabled,            \* the "disabled" prop the Not Null checkbox was last rendered with
    sent,                  \* the body of the request the last handler posted, if it posted one
    draggedEntity,         \* useEntityDrag's useState<DraggedState | null>, as an optional
    touchStart,            \* useEntityDrag's useState<{x, y} | null>, as an optional
    swipe,                 \* what the last handleTouchEnd logged: a direction, or "none"
    pointer,               \* the user's mouse button or finger: what it holds, where it
                           \* was pressed and on which entity, and the presses so far
    file,                  \* the design file the last save downloaded, as an optional:
                           \* its extension, its document, and the model it was written from
    requests,              \* the backend calls that were made and are not answered yet
    isLoading,             \* the loading flag set around a backend call
    scroll,                \* scrollLeft and scrollTop of the canvas area (overflow: auto)
    lastOp                 \* history: the last handler that ran, its arguments and outcome

vars == <<revision, now, entities, selectedEntityId, entityCounter,
          isAttributeModalOpen, editingAttribute, form, isFk, nnDisabled,
          sent, draggedEntity, touchStart, swipe, pointer, file, requests,
          isLoading, scroll, lastOp>>

-----------------------------------------------------------------------------
(* Bounds of the model *)

MaxNow == 2
MaxCounter == 3
MaxAttrs == 1
EditorMaxCounter == 2
EditorMaxAttrs == 2
ModalMaxCounter == 2
ModalMaxAttrs == 1
DeriveMaxEntities == 2
DeriveMaxAttrs == 2
DragMaxCounter == 2
MaxPresses == 2
FileMaxCounter == 3
FileMaxEntities == 2
FileMaxAttrs == 1
BackendMaxCounter == 2
BackendMaxAttrs == 1
MaxPending == 2
MaxDesign == 2
PressMaxCounter == 2
PressMaxPresses == 2
SwipeMaxCounter == 1
SwipeMaxPresses == 2
RelMaxEntities == 2
RelMaxAttrs == 2
GridMaxCounter == 9
SelMaxCounter == 2
SelMaxEntities == 2
LoadingMaxCounter == 2

-----------------------------------------------------------------------------
(* Strings *)

None == <<>>
Some(v) == <<v>>

EmptyStr == <<>>

RECURSIVE trimStart(_)
trimStart(s) ==
    IF s # <<>> /\ Head(s) = " " THEN trimStart(Tail(s)) ELSE s

RECURSIVE trimEnd(_)
trimEnd(s) ==
    IF s # <<>> /\ s[Len(s)] = " " THEN trimEnd(SubSeq(s, 1, Len(s) - 1)) ELSE s

\* String.prototype.trim
trim(s) == trimEnd(trimStart(s))

lowerChar(c) ==
    CASE c = "A" -> "a"
      [] c = "B" -> "b"
      [] c = "E" -> "e"
      [] c = "K" -> "k"
      [] c = "N" -> "n"
      [] OTHER -> c

\* String.prototype.toLowerCase
toLowerCase(s) == [i \in 1..Len(s) |-> lowerChar(s[i])]

digitChar(d) ==
    CASE d = 0 -> "0" [] d = 1 -> "1" [] d = 2 -> "2" [] d = 3 -> "3"
      [] d = 4 -> "4" [] d = 5 -> "5" [] d = 6 -> "6" [] d = 7 -> "7"
      [] d = 8 -> "8" [] OTHER -> "9"

\* the decimal digits a template literal `${n}` prints for n >= 0
RECURSIVE numberToString(_)
numberToString(n) ==
    IF n < 10 THEN <<digitChar(n)>>
    ELSE numberToString(n \div 10) \o <<digitChar(n % 10)>>

NewEntityPrefix == <<"N", "e", "w", "E", "n", "t", "i", "t", "y">>

\* `NewEntity${nextCounter}`
NewEntityName(n) == NewEntityPrefix \o numberToString(n)

-----------------------------------------------------------------------------
(* Data: Entity and Attribute of frontend/src/types.ts *)

NullId == 0

Range(s) == {s[i] : i \in 1..Len(s)}

\* the sequences over S of length at most n
SeqsUpTo(S, n) == UNION {[1..m -> S] : m \in 0..n}

\* Array.prototype.find on ids: the first entity with this id, as an optional
findEntity(es, id) ==
    LET hits == {i \in 1..Len(es) : es[i].id = id}
    IN  IF hits = {} THEN None
        ELSE Some(es[CHOOSE i \in hits : \A j \in hits : i <= j])

\* Array.prototype.findIndex on attribute ids: first index, 0 when absent (-1 in JS)
findAttrIndex(attrs, id) ==
    LET hits == {i \in 1..Len(attrs) : attrs[i].id = id}
    IN  IF hits = {} THEN 0 ELSE CHOOSE i \in hits : \A j \in hits : i <= j

\* Array.prototype.find by name (getReferencedEntityFields)
findEntityByName(es, name) ==
    LET hits == {i \in 1..Len(es) : es[i].name = name}
    IN  IF hits = {} THEN None
        ELSE Some(es[CHOOSE i \in hits : \A j \in hits : i <= j])

\* attr.isForeignKey && attr.foreignKeyRelation?.referencesEntity === name
referencesEntityNamed(attr, name) ==
    /\ attr.isForeignKey
    /\ attr.foreignKeyRelation # None
    /\ attr.foreignKeyRelation[1].referencesEntity = Some(name)

\* const selectedEntity = entities.find(e => e.id === selectedEntityId) || null
selectedEntity == findEntity(entities, selectedEntityId)

\* a JS string used as a condition: undefined and "" are falsy
truthy(optStr) == optStr # None /\ optStr[1] # EmptyStr

-----------------------------------------------------------------------------
(* setEntities updaters, and React applying the queued updaters in one render *)

\* prev => prev.map(e => e.id === entityId ? { ...e, name: trimmedName } : e)
renameUpdater(prev, entityId, trimmedName) ==
    [i \in 1..Len(prev) |->
        IF prev[i].id = entityId THEN [prev[i] EXCEPT !.name = trimmedName]
        ELSE prev[i]]

\* attr => attr.isForeignKey && attr.foreignKeyRelation?.referencesEntity === oldName
\*   ? { ...attr, foreignKeyRelation: { ...attr.foreignKeyRelation, referencesEntity: trimmedName } }
\*   : attr
cascadeAttr(attr, oldName, trimmedName) ==
    IF referencesEntityNamed(attr, oldName)
    THEN [attr EXCEPT !.foreignKeyRelation =
            Some([attr.foreignKeyRelation[1] EXCEPT !.referencesEntity = Some(trimmedName)])]
    ELSE attr

\* prev => prev.map(e => ({...e, attributes: e.attributes.map(attr => ... )}))
cascadeUpdater(prev, oldName, trimmedName) ==
    [i \in 1..Len(prev) |->
        [prev[i] EXCEPT !.attributes =
            [k \in 1..Len(prev[i].attributes) |->
                cascadeAttr(prev[i].attributes[k], oldName, trimmedName)]]]

applyUpdate(prev, u) ==
    CASE u.kind = "rename"  -> renameUpdater(prev, u.id, u.name)
      [] u.kind = "cascade" -> cascadeUpdater(prev, u.old, u.name)

RECURSIVE applyUpdates(_, _)
applyUpdates(prev, queue) ==
    IF queue = <<>> THEN prev
    ELSE applyUpdates(applyUpdate(prev, Head(queue)), Tail(queue))

-----------------------------------------------------------------------------
(* Entity handlers of SchemaDesigner *)

\* history record: the handler that ran, whether it went through (no early return,
\* no failed validation), and the name it was given (rename, attribute save)
Op(name, ok, arg) == [op |-> name, ok |-> ok, arg |-> arg]

ModalVars == <<isAttributeModalOpen, editingAttribute, form, isFk, nnDisabled>>

DragVars == <<draggedEntity, touchStart, swipe, pointer>>

CallVars == <<requests, isLoading>>

\* Date.now() read by a handler: the clock stands still or has advanced
ReadClock(t) == t \in {now, now + 1} /\ t <= MaxNow

\* handleAddEntity numbering the new entity by the entities present: the variant the
\* property on the counter has to tell from the code
handleAddEntityByLength(t) ==
    LET nextCounter == Len(entities) + 1
        newEntity ==
            [id |-> t,
             name |-> NewEntityName(nextCounter),
             attributes |-> <<>>,
             ui |-> [x |-> 50 + ((Len(entities) % 8) * 60),
                     y |-> 50 + ((Len(entities) \div 8) * 60)]]
    IN  /\ entities' = Append(entities, newEntity)
        /\ selectedEntityId' = newEntity.id
        /\ entityCounter' = nextCounter
        /\ now' = t
        /\ lastOp' = Op("add", TRUE, EmptyStr)
        /\ sent' = None
        /\ UNCHANGED <<revision, scroll, DragVars, file, CallVars, ModalVars>>

\* handleAddEntity
handleAddEntity(t) ==
    LET nextCounter == entityCounter + 1
        newEntity ==
            [id |-> t,
             name |-> NewEntityName(nextCounter),
             attributes |-> <<>>,
             ui |-> [x |-> 50 + ((Len(entities) % 8) * 60),
                     y |-> 50 + ((Len(entities) \div 8) * 60)]]
    IN  /\ entities' = Append(entities, newEntity)
        /\ selectedEntityId' = newEntity.id
        /\ entityCounter' = nextCounter
        /\ now' = t
        /\ lastOp' = Op("add", TRUE, EmptyStr)
        /\ sent' = None
        /\ UNCHANGED <<revision, scroll, DragVars, file, CallVars, ModalVars>>

\* handleSelectEntity
handleSelectEntity(entityId) ==
    /\ selectedEntityId' = entityId
    /\ lastOp' = Op("select", TRUE, EmptyStr)
    /\ sent' = None
    /\ UNCHANGED <<revision, scroll, DragVars, file, CallVars, now, entities, entityCounter, ModalVars>>

MaxNameLength == 50

\* the checks of handleUpdateEntityName that return before any setEntities
renameRejected(entityId, newName) ==
    LET trimmedName == trim(newName)
    IN  \/ /\ revision = "p5"
           /\ Len(trimmedName) > MaxNameLength
        \/ /\ revision = "tsx"
           /\ trimmedName = EmptyStr                 \* !trimmedName
        \/ /\ revision = "p5"
           /\ trimmedName = EmptyStr                 \* !trimmedName && trimmedName.length === -1
           /\ Len(trimmedName) = -1
        \/ \E i \in 1..Len(entities) :
              /\ toLowerCase(entities[i].name) = toLowerCase(trimmedName)
              /\ entities[i].id # entityId

\* the updaters handleUpdateEntityName queues with setEntities
renameUpdates(entityId, newName) ==
    LET trimmedName == trim(newName)
        found == findEntity(entities, entityId)
        oldName == IF found = None THEN None ELSE Some(found[1].name)
    IN  <<[kind |-> "rename", id |-> entityId, name |-> trimmedName, old |-> EmptyStr]>>
        \o (IF truthy(oldName)
            THEN <<[kind |-> "cascade", id |-> NullId, name |-> trimmedName, old |-> oldName[1]]>>
            ELSE <<>>)

\* handleUpdateEntityName, with the render React runs when the event handler returns
handleUpdateEntityName(entityId, newName) ==
    LET rejected == renameRejected(entityId, newName)
    IN  /\ entities' = IF rejected THEN entities
                       ELSE applyUpdates(entities, renameUpdates(entityId, newName))
        /\ lastOp' = Op("rename", ~rejected, newName)
        /\ sent' = None
        /\ UNCHANGED <<revision, scroll, DragVars, file, CallVars, now, selectedEntityId, entityCounter, ModalVars>>

\* handleDeleteEntity
handleDeleteEntity(entityId) ==
    LET entityToDelete == findEntity(entities, entityId)
        remainingEntities == SelectSeq(entities, LAMBDA e : e.id # entityId)
        updatedEntities ==
            [i \in 1..Len(remainingEntities) |->
                [remainingEntities[i] EXCEPT !.attributes =
                    SelectSeq(remainingEntities[i].attributes,
                              LAMBDA attr : ~referencesEntityNamed(attr, entityToDelete[1].name))]]
    IN  IF entityToDelete = None
        THEN /\ lastOp' = Op("delete", FALSE, EmptyStr)
             /\ sent' = None
             /\ UNCHANGED <<revision, scroll, DragVars, file, CallVars, now, entities, selectedEntityId, entityCounter,
                            ModalVars>>
        ELSE /\ entities' = updatedEntities
             /\ selectedEntityId' = IF selectedEntityId = entityId THEN NullId
                                    ELSE selectedEntityId
             /\ lastOp' = Op("delete", TRUE, EmptyStr)
             /\ sent' = None
             /\ UNCHANGED <<revision, scroll, DragVars, file, CallVars, now, entityCounter, ModalVars>>

-----------------------------------------------------------------------------
(* The attribute editor: AttributeEditorModal.tsx and the attribute handlers *)

\* defaultAttributeState, the form store before any field is set (Form initialValues)
initialForm ==
    [name |-> EmptyStr, type |-> "String",
     isPrimaryKey |-> FALSE, isNotNull |-> FALSE, isUnique |-> FALSE,
     isForeignKey |-> FALSE, referencesEntity |-> None, referencesField |-> None]

\* form.setFieldsValue({...attributeToEdit, referencesEntity: ..., referencesField: ...})
formOfAttribute(attr) ==
    [name |-> attr.name, type |-> attr.type,
     isPrimaryKey |-> attr.isPrimaryKey, isNotNull |-> attr.isNotNull,
     isUnique |-> attr.isUnique, isForeignKey |-> attr.isForeignKey,
     referencesEntity |-> IF attr.foreignKeyRelation = None THEN None
                          ELSE attr.foreignKeyRelation[1].referencesEntity,
     referencesField |-> IF attr.foreignKeyRelation = None THEN None
                         ELSE attr.foreignKeyRelation[1].referencesField]

\* the useEffect that fills the form when the modal opens
formOnOpen(attributeToEdit) ==
    IF attributeToEdit = None THEN initialForm ELSE formOfAttribute(attributeToEdit[1])

\* the options of the "References Entity" select
referencesEntityOptions(allEntities, currentEntityName) ==
    {e.name : e \in {x \in Range(allEntities) : x.name # currentEntityName}}

\* getReferencedEntityFields: the options of the "References Field" select
getReferencedEntityFields(allEntities, f) ==
    IF ~truthy(f.referencesEntity) THEN {}
    ELSE LET refEntity == findEntityByName(allEntities, f.referencesEntity[1])
         IN  IF refEntity = None THEN {}
             ELSE {a.name : a \in {x \in Range(refEntity[1].attributes) : x.isPrimaryKey}}

\* validateFields with the duplicate rule comparing the names as written, without
\* toLowerCase: the variant the uniqueness property has to tell from the code
validateFieldsCaseSensitive(f, entityAttributes, attributeToEdit, fkMounted) ==
    LET editId == IF attributeToEdit = None THEN NullId ELSE attributeToEdit[1].id
        isDuplicate ==
            \E i \in 1..Len(entityAttributes) :
                /\ entityAttributes[i].name = f.name
                /\ entityAttributes[i].id # editId
    IN  /\ f.name # EmptyStr
        /\ ~isDuplicate
        /\ fkMounted => /\ truthy(f.referencesEntity)
                        /\ truthy(f.referencesField)

\* validateFields without the "required" rules of the fk-details-section: the variant
\* the property on incomplete foreign keys has to tell from the code
validateFieldsWithoutFkRules(f, entityAttributes, attributeToEdit, fkMounted) ==
    LET editId == IF attributeToEdit = None THEN NullId ELSE attributeToEdit[1].id
        isDuplicate ==
            \E i \in 1..Len(entityAttributes) :
                /\ toLowerCase(entityAttributes[i].name) = toLowerCase(f.name)
                /\ entityAttributes[i].id # editId
    IN  /\ f.name # EmptyStr
        /\ ~isDuplicate

\* the rules form.validateFields() runs; fkMounted: the fk-details-section is rendered
validateFields(f, entityAttributes, attributeToEdit, fkMounted) ==
    LET editId == IF attributeToEdit = None THEN NullId ELSE attributeToEdit[1].id
        isDuplicate ==
            \E i \in 1..Len(entityAttributes) :
                /\ toLowerCase(entityAttributes[i].name) = toLowerCase(f.name)
                /\ entityAttributes[i].id # editId
    IN  /\ f.name # EmptyStr                        \* required: true
        /\ ~isDuplicate
        /\ fkMounted => /\ truthy(f.referencesEntity)
                        /\ truthy(f.referencesField)

\* attributeDataOf building the relation from the reference fields whatever the
\* foreign key flag says: the variant the flag/relation property has to tell from
\* the code
attributeDataAlwaysRelated(f, attributeToEdit, t) ==
    [id |-> IF attributeToEdit = None THEN t ELSE attributeToEdit[1].id,
     name |-> f.name,
     type |-> f.type,
     isPrimaryKey |-> f.isPrimaryKey,
     isNotNull |-> f.isNotNull,
     isUnique |-> f.isUnique,
     isForeignKey |-> f.isForeignKey,
     foreignKeyRelation |->
        Some([referencesEntity |-> f.referencesEntity,
              referencesField |-> f.referencesField])]

\* the attributeData handleSave builds from the validated values
attributeDataOf(f, attributeToEdit, t) ==
    [id |-> IF attributeToEdit = None THEN t ELSE attributeToEdit[1].id,
     name |-> f.name,
     type |-> f.type,
     isPrimaryKey |-> f.isPrimaryKey,
     isNotNull |-> f.isNotNull,
     isUnique |-> f.isUnique,
     isForeignKey |-> f.isForeignKey,
     foreignKeyRelation |->
        IF f.isForeignKey
        THEN Some([referencesEntity |-> f.referencesEntity,
                   referencesField |-> f.referencesField])
        ELSE None]

\* the updater of handleSaveAttribute: upsert by attribute id in the selected entity
saveAttributeUpdater(prev, entityId, attributeData) ==
    [i \in 1..Len(prev) |->
        IF prev[i].id = entityId
        THEN LET existingAttrIndex == findAttrIndex(prev[i].attributes, attributeData.id)
             IN  [prev[i] EXCEPT !.attributes =
                    IF existingAttrIndex > 0
                    THEN [@ EXCEPT ![existingAttrIndex] = attributeData]
                    ELSE Append(@, attributeData)]
        ELSE prev[i]]

\* handleSaveAttribute, without the closing of the modal
handleSaveAttribute(prev, attributeData) ==
    IF selectedEntityId = NullId THEN prev
    ELSE saveAttributeUpdater(prev, selectedEntityId, attributeData)

\* the updater of handleDeleteAttribute
deleteAttributeUpdater(prev, entityId, attributeId) ==
    [i \in 1..Len(prev) |->
        IF prev[i].id = entityId
        THEN [prev[i] EXCEPT !.attributes = SelectSeq(@, LAMBDA attr : attr.id # attributeId)]
        ELSE prev[i]]

\* handleDeleteAttribute
handleDeleteAttribute(entityId, attributeId) ==
    /\ entities' = deleteAttributeUpdater(entities, entityId, attributeId)
    /\ lastOp' = Op("deleteAttribute", TRUE, EmptyStr)
    /\ sent' = None
    /\ UNCHANGED <<revision, scroll, DragVars, file, CallVars, now, selectedEntityId, entityCounter, ModalVars>>

\* handleCloseAttributeModal; the modal unmounts (destroyOnClose), its form and state are dropped
closeAttributeModal ==
    /\ isAttributeModalOpen' = FALSE
    /\ editingAttribute' = None
    /\ form' = initialForm
    /\ isFk' = FALSE
    /\ nnDisabled' = FALSE

\* handleOpenAttributeModal, and the first render and effect of the modal it mounts
handleOpenAttributeModal(entityId, attributeId) ==
    LET entity == findEntity(entities, entityId)
        k == IF entity = None \/ attributeId = None THEN 0
             ELSE findAttrIndex(entity[1].attributes, attributeId[1])
        attribute == IF k = 0 THEN None ELSE Some(entity[1].attributes[k])
        fkAfterEffect == attribute # None /\ attribute[1].isForeignKey
    IN  /\ selectedEntityId' = entityId
        /\ IF entity = None
           THEN UNCHANGED ModalVars
           ELSE /\ editingAttribute' = attribute
                /\ isAttributeModalOpen' = TRUE
                /\ form' = formOnOpen(attribute)
                /\ isFk' = fkAfterEffect
                \* the checkbox is rendered before the effect fills the form; it is
                \* rendered again only if setIsFk changed the component's state
                /\ nnDisabled' = (fkAfterEffect /\ attribute[1].isPrimaryKey)
        /\ lastOp' = Op("openModal", entity # None, EmptyStr)
        /\ sent' = None
        /\ UNCHANGED <<revision, scroll, DragVars, file, CallVars, now, entities, entityCounter>>

FormStep(f, name) ==
    /\ isAttributeModalOpen
    /\ form' = f
    /\ lastOp' = Op(name, TRUE, EmptyStr)
    /\ sent' = None
    /\ UNCHANGED <<revision, scroll, DragVars, file, CallVars, now, entities, selectedEntityId, entityCounter,
                   isAttributeModalOpen, editingAttribute>>

\* typing into the "Attribute Name" input
onNameChange(value) ==
    /\ FormStep([form EXCEPT !.name = value], "name")
    /\ UNCHANGED <<isFk, nnDisabled>>

\* clicking "Primary Key (PK)": the form item stores the value, then onPkChange runs
onPkChange(checked) ==
    /\ FormStep([form EXCEPT !.isPrimaryKey = checked,
                             !.isNotNull = IF checked THEN TRUE ELSE @], "pk")
    /\ UNCHANGED <<isFk, nnDisabled>>

\* clicking "Not Null (NN)", possible while the checkbox is not rendered disabled
onNnChange(checked) ==
    /\ ~nnDisabled
    /\ FormStep([form EXCEPT !.isNotNull = checked], "nn")
    /\ UNCHANGED <<isFk, nnDisabled>>

\* clicking "Foreign Key (FK)": setIsFk changes state, so the modal renders again
onFkChange(checked) ==
    /\ FormStep([form EXCEPT !.isForeignKey = checked], "fk")
    /\ isFk' = checked
    /\ nnDisabled' = form.isPrimaryKey

\* picking a "References Entity" option; onChange clears referencesField
onReferencesEntityChange(name) ==
    /\ isFk
    /\ selectedEntity # None
    /\ name \in referencesEntityOptions(entities, selectedEntity[1].name)
    /\ form.referencesEntity # Some(name)
    /\ FormStep([form EXCEPT !.referencesEntity = Some(name),
                             !.referencesField = None], "refEntity")
    /\ UNCHANGED <<isFk, nnDisabled>>

\* picking a "References Field" option
onReferencesFieldChange(name) ==
    /\ isFk
    /\ truthy(form.referencesEntity)
    /\ name \in getReferencedEntityFields(entities, form)
    /\ FormStep([form EXCEPT !.referencesField = Some(name)], "refField")
    /\ UNCHANGED <<isFk, nnDisabled>>

\* the modal's Cancel
onCancel ==
    /\ isAttributeModalOpen
    /\ closeAttributeModal
    /\ lastOp' = Op("cancel", TRUE, EmptyStr)
    /\ sent' = None
    /\ UNCHANGED <<revision, scroll, DragVars, file, CallVars, now, entities, selectedEntityId, entityCounter>>

\* the modal's Save: handleSave, then handleSaveAttribute and onClose when the rules pass
handleSave(t) ==
    LET valid == validateFields(form, selectedEntity[1].attributes, editingAttribute, isFk)
        attributeData == attributeDataOf(form, editingAttribute, t)
    IN  /\ isAttributeModalOpen
        /\ selectedEntity # None
        /\ IF valid
           THEN /\ entities' = handleSaveAttribute(entities, attributeData)
                /\ closeAttributeModal
                /\ now' = IF editingAttribute = None THEN t ELSE now
           ELSE UNCHANGED <<entities, ModalVars, now>>
        /\ lastOp' = Op("saveAttribute", valid, form.name)
        /\ sent' = None
        /\ UNCHANGED <<revision, scroll, DragVars, file, CallVars, selectedEntityId, entityCounter>>

\* One visit to the editor taken as a whole: the panel opens the modal on the selected
\* entity (attributeId: the attribute to edit, if any), the user leaves the form at f,
\* presses Save, and cancels if the rules refuse it.  The modal is modal: no other
\* handler of the designer runs in between.
attributeSession(attributeId, f, t) ==
    LET entity == selectedEntity
        k == IF attributeId = None THEN 0
             ELSE findAttrIndex(entity[1].attributes, attributeId[1])
        attribute == IF k = 0 THEN None ELSE Some(entity[1].attributes[k])
        valid == validateFields(f, entity[1].attributes, attribute, f.isForeignKey)
        attributeData == attributeDataOf(f, attribute, t)
    IN  /\ entity # None
        /\ attribute # None => t = now
        /\ entities' = IF valid THEN handleSaveAttribute(entities, attributeData) ELSE entities
        /\ now' = IF valid /\ attribute = None THEN t ELSE now
        /\ lastOp' = Op("saveAttribute", valid, f.name)
        /\ sent' = None
        /\ UNCHANGED <<revision, scroll, DragVars, file, CallVars, selectedEntityId, entityCounter, ModalVars>>

\* the contents the user can leave the form with, having opened it on `attribute`
\* of entity `entity`; names, types and the flags are drawn from the given sets
sessionForms(entity, attribute, names, types, pks, nns, uns) ==
    LET start == formOnOpen(attribute)
        entityChoices ==
            {start.referencesEntity}
            \cup {Some(n) : n \in referencesEntityOptions(entities, entity.name)}
        fieldChoices(re) ==
            (IF re = start.referencesEntity THEN {start.referencesField} ELSE {None})
            \cup {Some(n) : n \in getReferencedEntityFields(entities, [referencesEntity |-> re])}
    IN  {f \in [name : names, type : types, isPrimaryKey : pks, isNotNull : nns,
                isUnique : uns, isForeignKey : BOOLEAN,
                referencesEntity : entityChoices,
                referencesField : UNION {fieldChoices(re) : re \in entityChoices}] :
            IF f.isForeignKey
            THEN f.referencesField \in fieldChoices(f.referencesEntity)
            ELSE /\ f.referencesEntity = start.referencesEntity
                 /\ f.referencesField = start.referencesField}

-----------------------------------------------------------------------------
(* Code generation: apiService.ts and handleGenerateCode *)

\* prepareEntitiesForApi
prepareEntitiesForApi(es) ==
    [i \in 1..Len(es) |->
        [name |-> es[i].name,
         attributes |->
            [k \in 1..Len(es[i].attributes) |->
                LET attr == es[i].attributes[k]
                IN  [name |-> attr.name, type |-> attr.type,
                     pk |-> attr.isPrimaryKey, nn |-> attr.isNotNull,
                     un |-> attr.isUnique, fk |-> attr.isForeignKey,
                     references_entity |->
                        IF attr.foreignKeyRelation = None THEN None
                        ELSE attr.foreignKeyRelation[1].referencesEntity,
                     references_field |->
                        IF attr.foreignKeyRelation = None THEN None
                        ELSE attr.foreignKeyRelation[1].referencesField]]]]

\* the inner forEach without the relExists test: the variant the property on
\* repeated relationships has to tell from the code
RECURSIVE deriveFromAttributesUnchecked(_, _, _)
deriveFromAttributesUnchecked(relationships, entity, k) ==
    IF k > Len(entity.attributes) THEN relationships
    ELSE LET attr == entity.attributes[k]
             isFkWithTarget ==
                /\ attr.isForeignKey
                /\ attr.foreignKeyRelation # None
                /\ truthy(attr.foreignKeyRelation[1].referencesEntity)
             rel == [from_entity |-> attr.foreignKeyRelation[1].referencesEntity[1],
                     to_entity |-> entity.name,
                     type |-> "1:N",
                     foreign_key_in_to_entity |-> attr.name]
         IN  deriveFromAttributesUnchecked(
                IF isFkWithTarget THEN Append(relationships, rel) ELSE relationships,
                entity, k + 1)

\* the inner forEach reporting a unique foreign key as "1:1": the variant the
\* property on the relationship type has to tell from the code
RECURSIVE deriveFromAttributesByUnique(_, _, _)
deriveFromAttributesByUnique(relationships, entity, k) ==
    IF k > Len(entity.attributes) THEN relationships
    ELSE LET attr == entity.attributes[k]
             isFkWithTarget ==
                /\ attr.isForeignKey
                /\ attr.foreignKeyRelation # None
                /\ truthy(attr.foreignKeyRelation[1].referencesEntity)
             relExists ==
                \E j \in 1..Len(relationships) :
                    /\ relationships[j].from_entity = attr.foreignKeyRelation[1].referencesEntity[1]
                    /\ relationships[j].to_entity = entity.name
                    /\ relationships[j].foreign_key_in_to_entity = attr.name
             rel == [from_entity |-> attr.foreignKeyRelation[1].referencesEntity[1],
                     to_entity |-> entity.name,
                     type |-> IF attr.isUnique THEN "1:1" ELSE "1:N",
                     foreign_key_in_to_entity |-> attr.name]
         IN  deriveFromAttributesByUnique(
                IF isFkWithTarget /\ ~relExists THEN Append(relationships, rel)
                ELSE relationships,
                entity, k + 1)

\* the inner forEach of deriveRelationshipsFromFks, from attribute k of `entity` on
RECURSIVE deriveFromAttributes(_, _, _)
deriveFromAttributes(relationships, entity, k) ==
    IF k > Len(entity.attributes) THEN relationships
    ELSE LET attr == entity.attributes[k]
             isFkWithTarget ==
                /\ attr.isForeignKey
                /\ attr.foreignKeyRelation # None
                /\ truthy(attr.foreignKeyRelation[1].referencesEntity)
             relExists ==
                \E j \in 1..Len(relationships) :
                    /\ relationships[j].from_entity = attr.foreignKeyRelation[1].referencesEntity[1]
                    /\ relationships[j].to_entity = entity.name
                    /\ relationships[j].foreign_key_in_to_entity = attr.name
             rel == [from_entity |-> attr.foreignKeyRelation[1].referencesEntity[1],
                     to_entity |-> entity.name,
                     type |-> "1:N",
                     foreign_key_in_to_entity |-> attr.name]
         IN  deriveFromAttributes(
                IF isFkWithTarget /\ ~relExists THEN Append(relationships, rel)
                ELSE relationships,
                entity, k + 1)

\* the outer forEach of deriveRelationshipsFromFks, from entity i on
RECURSIVE deriveFromEntities(_, _, _)
deriveFromEntities(relationships, es, i) ==
    IF i > Len(es) THEN relationships
    ELSE deriveFromEntities(deriveFromAttributes(relationships, es[i], 1), es, i + 1)

\* deriveRelationshipsFromFks
deriveRelationshipsFromFks(es) == deriveFromEntities(<<>>, es, 1)

\* the payload generateBackendCode posts to /generate
generatePayload(es) ==
    [entities |-> prepareEntitiesForApi(es),
     relationships |-> deriveRelationshipsFromFks(es)]

\* handleGenerateCode up to the fetch: refused only when there is no entity
handleGenerateCode ==
    /\ IF Len(entities) = 0
       THEN /\ sent' = None
            /\ lastOp' = Op("generate", FALSE, EmptyStr)
            /\ UNCHANGED CallVars
       ELSE /\ sent' = Some(generatePayload(entities))
            /\ lastOp' = Op("generate", TRUE, EmptyStr)
            /\ isLoading' = TRUE
            /\ requests' = Append(requests, "generate")
    /\ UNCHANGED <<revision, scroll, DragVars, file, now, entities, selectedEntityId, entityCounter,
                   ModalVars>>

-----------------------------------------------------------------------------
(* Backend calls and their answers: generateBackendCode and askGeminiForDesign *)
(* with the continuations of handleGenerateCode and handleSendDesignPrompt     *)

\* the answers a call can get: fetch rejects; the server answers with a non-OK
\* status and an error body; the body is no JSON; the body is an object with
\* neither field; the body of /generate; the body of /generate-ai-schema
Rejected ==
    [name |-> "rejected", arrives |-> FALSE, ok |-> FALSE, parses |-> FALSE,
     download_url |-> FALSE, entities |-> None]
NonOk ==
    [name |-> "status", arrives |-> TRUE, ok |-> FALSE, parses |-> TRUE,
     download_url |-> FALSE, entities |-> None]
Unparsable ==
    [name |-> "unparsable", arrives |-> TRUE, ok |-> TRUE, parses |-> FALSE,
     download_url |-> FALSE, entities |-> None]
EmptyBody ==
    [name |-> "empty", arrives |-> TRUE, ok |-> TRUE, parses |-> TRUE,
     download_url |-> FALSE, entities |-> None]
Generated ==
    [name |-> "generated", arrives |-> TRUE, ok |-> TRUE, parses |-> TRUE,
     download_url |-> TRUE, entities |-> None]
Designed(design) ==
    [name |-> "designed", arrives |-> TRUE, ok |-> TRUE, parses |-> TRUE,
     download_url |-> FALSE, entities |-> Some(design)]

\* generateBackendCode after the fetch: TRUE when it returns, FALSE when it throws
generateReturns(response) ==
    /\ response.arrives
    /\ response.parses            \* await response.json()
    /\ response.ok
    /\ response.download_url

\* askGeminiForDesign after the fetch: the data it returns, None when it throws
designData(response) ==
    IF response.arrives /\ response.ok /\ response.parses THEN Some(response) ELSE None

\* incomingOf taking a body without entities for an empty design: the variant the
\* property on failed calls has to tell from the code
incomingOrEmpty(response) ==
    IF designData(response) = None THEN None
    ELSE IF response.entities = None THEN Some(<<>>)
    ELSE response.entities

\* response.entities in the .then of handleSendDesignPrompt, None when the call
\* threw or the check of incomingEntities throws
incomingOf(response) ==
    IF designData(response) = None THEN None
    ELSE response.entities

\* `entity-${Date.now()}-${index}`: ids of this shape are the negative numbers, the
\* ids `entity-${Date.now()}` of handleAddEntity the positive ones
hydratedId(t, index) == 0 - (1 + index + MaxDesign * t)

\* hydratedEntities
hydrate(incomingEntities, t) ==
    [i \in 1..Len(incomingEntities) |->
        LET entity == incomingEntities[i]
            index == i - 1
        IN  [id |-> IF entity.id # None /\ entity.id[1] # 0 THEN entity.id[1]
                    ELSE hydratedId(t, index),
             name |-> entity.name,
             attributes |-> entity.attributes,
             ui |-> [x |-> IF entity.ui # None /\ entity.ui[1].x # 0 THEN entity.ui[1].x
                           ELSE 50 + ((index % 8) * 60),
                     y |-> IF entity.ui # None /\ entity.ui[1].y # 0 THEN entity.ui[1].y
                           ELSE 50 + ((index \div 8) * 60)]]]

\* handleSendDesignPrompt up to the fetch
handleSendDesignPrompt(designPrompt) ==
    /\ IF trim(designPrompt) = EmptyStr
       THEN /\ lastOp' = Op("design", FALSE, designPrompt)
            /\ UNCHANGED CallVars
       ELSE /\ lastOp' = Op("design", TRUE, designPrompt)
            /\ isLoading' = TRUE
            /\ requests' = Append(requests, "design")
    /\ sent' = None
    /\ UNCHANGED <<revision, scroll, DragVars, file, now, entities, selectedEntityId, entityCounter,
                   ModalVars>>

\* the requests without the i-th
answered(i) == [j \in 1..(Len(requests) - 1) |-> IF j < i THEN requests[j] ELSE requests[j + 1]]

\* settleGenerate with setIsLoading(false) at the end of the try block instead of
\* the finally block: the variant the property on the loading flag has to tell
\* from the code
settleGenerateResettingOnSuccess(i, response) ==
    /\ lastOp' = Op("settle", generateReturns(response), <<"generate", response.name>>)
    /\ isLoading' = IF generateReturns(response) THEN FALSE ELSE isLoading
    /\ requests' = answered(i)
    /\ sent' = None
    /\ UNCHANGED <<revision, scroll, DragVars, file, now, entities, selectedEntityId, entityCounter,
                   ModalVars>>

\* handleGenerateCode from the await on: try, catch, finally
settleGenerate(i, response) ==
    /\ lastOp' = Op("settle", generateReturns(response), <<"generate", response.name>>)
    /\ isLoading' = FALSE
    /\ requests' = answered(i)
    /\ sent' = None
    /\ UNCHANGED <<revision, scroll, DragVars, file, now, entities, selectedEntityId, entityCounter,
                   ModalVars>>

\* settleDesign without setSelectedEntityId(null): the variant the property on the
\* selection has to tell from the code
settleDesignKeepingSelection(i, response, t) ==
    LET incomingEntities == incomingOf(response)
    IN  /\ IF incomingEntities # None
           THEN /\ entities' = hydrate(incomingEntities[1], t)
                /\ entityCounter' = Len(incomingEntities[1])
                /\ UNCHANGED selectedEntityId
           ELSE UNCHANGED <<entities, entityCounter, selectedEntityId>>
        /\ lastOp' = Op("settle", incomingEntities # None, <<"design", response.name>>)
        /\ isLoading' = FALSE
        /\ requests' = answered(i)
        /\ now' = t
        /\ sent' = None
        /\ UNCHANGED <<revision, scroll, DragVars, file, ModalVars>>

\* handleSendDesignPrompt from the promise on: then, catch, finally; t is Date.now()
settleDesign(i, response, t) ==
    LET incomingEntities == incomingOf(response)
    IN  /\ IF incomingEntities # None
           THEN /\ entities' = hydrate(incomingEntities[1], t)
                /\ entityCounter' = Len(incomingEntities[1])
                /\ selectedEntityId' = NullId
           ELSE UNCHANGED <<entities, entityCounter, selectedEntityId>>
        /\ lastOp' = Op("settle", incomingEntities # None, <<"design", response.name>>)
        /\ isLoading' = FALSE
        /\ requests' = answered(i)
        /\ now' = t
        /\ sent' = None
        /\ UNCHANGED <<revision, scroll, DragVars, file, ModalVars>>

-----------------------------------------------------------------------------
(* Dragging: the useEntityDrag hook, in revision "tsx" the mouse-only hook, in *)
(* revision "p5" the hook with touch handlers                                  *)

\* Math.abs
abs(n) == IF n < 0 THEN -n ELSE n

threshold == 50

\* swipeOf with the vertical branch comparing with 0 instead of the threshold: the
\* variant the swipe examples have to tell from the code
swipeOfUncheckedVertical(from, to) ==
    LET deltaX == to.x - from.x
        deltaY == to.y - from.y
    IN  IF abs(deltaX) > abs(deltaY)
        THEN (IF deltaX > threshold THEN "right"
              ELSE IF deltaX < -threshold THEN "left"
              ELSE "none")
        ELSE (IF deltaY > 0 THEN "down"
              ELSE IF deltaY < 0 THEN "up"
              ELSE "none")

\* swipeOf testing the horizontal displacement first, whichever axis is the larger:
\* the variant the classification property has to tell from the code
swipeOfHorizontalFirst(from, to) ==
    LET deltaX == to.x - from.x
        deltaY == to.y - from.y
    IN  IF deltaX > threshold THEN "right"
        ELSE IF deltaX < -threshold THEN "left"
        ELSE IF deltaY > threshold THEN "down"
        ELSE IF deltaY < -threshold THEN "up"
        ELSE "none"

\* what handleTouchEnd logs for a release at `to` of a touch that started at `from`
swipeOf(from, to) ==
    LET deltaX == to.x - from.x
        deltaY == to.y - from.y
    IN  IF abs(deltaX) > abs(deltaY)
        THEN (IF deltaX > threshold THEN "right"
              ELSE IF deltaX < -threshold THEN "left"
              ELSE "none")
        ELSE (IF deltaY > threshold THEN "down"
              ELSE IF deltaY < -threshold THEN "up"
              ELSE "none")

\* a pointer position as the argument a history record keeps
pointArg(p) == <<p.x, p.y>>

\* setDraggedEntity({ id: entity.id, offsetX, offsetY })
draggedState(p, entity) ==
    [id |-> entity.id, offsetX |-> p.x - entity.ui.x, offsetY |-> p.y - entity.ui.y]

\* moveUpdater adding the pointer's offset-corrected position to the position the
\* entity has: the variant the drag property has to tell from the code
moveUpdaterAccumulating(prev, dragged, p) ==
    [i \in 1..Len(prev) |->
        IF prev[i].id = dragged.id
        THEN [prev[i] EXCEPT !.ui = [x |-> @.x + p.x - dragged.offsetX,
                                     y |-> @.y + p.y - dragged.offsetY]]
        ELSE prev[i]]

\* the updater of handleDragMove and handleTouchMove
moveUpdater(prev, dragged, p) ==
    [i \in 1..Len(prev) |->
        IF prev[i].id = dragged.id
        THEN [prev[i] EXCEPT !.ui = [x |-> p.x - dragged.offsetX,
                                     y |-> p.y - dragged.offsetY]]
        ELSE prev[i]]

\* handleDragStart: mouse down at p on the card of `entity`
handleDragStart(p, entity) ==
    /\ draggedEntity' = Some(draggedState(p, entity))
    /\ lastOp' = Op("dragStart", TRUE, pointArg(p))
    /\ UNCHANGED <<revision, scroll, entities, now, selectedEntityId, entityCounter, sent,
                   touchStart, swipe, ModalVars, file, CallVars>>

\* handleTouchStart: a finger put down at p on the card of `entity`
handleTouchStart(p, entity) ==
    /\ draggedEntity' = Some(draggedState(p, entity))
    /\ touchStart' = Some(p)
    /\ lastOp' = Op("touchStart", TRUE, pointArg(p))
    /\ UNCHANGED <<revision, scroll, entities, now, selectedEntityId, entityCounter, sent,
                   swipe, ModalVars, file, CallVars>>

\* handleDragMove / handleTouchMove: the pointer is at p
handleMove(name, p) ==
    /\ entities' = IF draggedEntity = None THEN entities
                   ELSE moveUpdater(entities, draggedEntity[1], p)
    /\ lastOp' = Op(name, draggedEntity # None, pointArg(p))
    /\ UNCHANGED <<revision, scroll, now, selectedEntityId, entityCounter, sent,
                   draggedEntity, touchStart, swipe, ModalVars, file, CallVars>>

handleDragMove(p) == handleMove("dragMove", p)

handleTouchMove(p) == handleMove("touchMove", p)

\* handleDragEnd: mouse up, or the mouse leaves the main area
handleDragEnd ==
    /\ draggedEntity' = None
    /\ touchStart' = None
    /\ lastOp' = Op("dragEnd", TRUE, EmptyStr)
    /\ UNCHANGED <<revision, scroll, entities, now, selectedEntityId, entityCounter, sent,
                   swipe, ModalVars, file, CallVars>>

\* handleTouchEnd without its closing call of handleDragEnd: the variant the
\* release property has to tell from the code
handleTouchEndWithoutDragEnd(p) ==
    /\ swipe' = IF touchStart = None THEN "none" ELSE swipeOf(touchStart[1], p)
    /\ lastOp' = Op("touchEnd", touchStart # None, pointArg(p))
    /\ UNCHANGED <<revision, scroll, entities, now, selectedEntityId, entityCounter, sent,
                   draggedEntity, touchStart, ModalVars, file, CallVars>>

\* handleTouchEnd: the finger is lifted at p
handleTouchEnd(p) ==
    /\ IF touchStart = None
       THEN /\ swipe' = "none"
            /\ UNCHANGED <<draggedEntity, touchStart>>
       ELSE /\ swipe' = swipeOf(touchStart[1], p)
            /\ draggedEntity' = None
            /\ touchStart' = None
    /\ lastOp' = Op("touchEnd", touchStart # None, pointArg(p))
    /\ UNCHANGED <<revision, scroll, entities, now, selectedEntityId, entityCounter, sent,
                   ModalVars, file, CallVars>>

-----------------------------------------------------------------------------
(* Design files: handleSaveDesign and handleLoadDesign; saveFlowmancerFile and *)
(* loadFlowmancerFile in revision "p5".  A JSON object is a function on the    *)
(* names of the fields it has: JSON.stringify leaves out a field that is       *)
(* undefined, and a field that is absent reads as undefined after JSON.parse.  *)

\* JSON.stringify of a foreignKeyRelation
jsonOfRelation(r) ==
    CASE r.referencesEntity # None /\ r.referencesField # None ->
            [referencesEntity |-> r.referencesEntity[1],
             referencesField |-> r.referencesField[1]]
      [] r.referencesEntity # None /\ r.referencesField = None ->
            [referencesEntity |-> r.referencesEntity[1]]
      [] r.referencesEntity = None /\ r.referencesField # None ->
            [referencesField |-> r.referencesField[1]]
      [] OTHER -> <<>>

\* JSON.stringify of an Attribute
jsonOfAttribute(attr) ==
    IF attr.foreignKeyRelation = None
    THEN [id |-> attr.id, name |-> attr.name, type |-> attr.type,
          isPrimaryKey |-> attr.isPrimaryKey, isNotNull |-> attr.isNotNull,
          isUnique |-> attr.isUnique, isForeignKey |-> attr.isForeignKey]
    ELSE [id |-> attr.id, name |-> attr.name, type |-> attr.type,
          isPrimaryKey |-> attr.isPrimaryKey, isNotNull |-> attr.isNotNull,
          isUnique |-> attr.isUnique, isForeignKey |-> attr.isForeignKey,
          foreignKeyRelation |-> jsonOfRelation(attr.foreignKeyRelation[1])]

\* JSON.stringify of an Entity without the ui field: the variant the round trip has
\* to tell from the code
jsonOfEntityWithoutPosition(e) ==
    [id |-> e.id, name |-> e.name,
     attributes |-> [k \in 1..Len(e.attributes) |-> jsonOfAttribute(e.attributes[k])]]

\* JSON.stringify of an Entity
jsonOfEntity(e) ==
    IF "ui" \in DOMAIN e
    THEN [id |-> e.id, name |-> e.name,
          attributes |-> [k \in 1..Len(e.attributes) |-> jsonOfAttribute(e.attributes[k])],
          ui |-> [x |-> e.ui.x, y |-> e.ui.y]]
    ELSE [id |-> e.id, name |-> e.name,
          attributes |-> [k \in 1..Len(e.attributes) |-> jsonOfAttribute(e.attributes[k])]]

\* an optional field of a parsed object
fieldOf(json, name) == IF name \in DOMAIN json THEN Some(json[name]) ELSE None

\* a parsed foreignKeyRelation as the designer reads it
relationOfJson(json) ==
    [referencesEntity |-> fieldOf(json, "referencesEntity"),
     referencesField |-> fieldOf(json, "referencesField")]

\* a parsed attribute as the designer reads it
attributeOfJson(json) ==
    [id |-> json.id, name |-> json.name, type |-> json.type,
     isPrimaryKey |-> json.isPrimaryKey, isNotNull |-> json.isNotNull,
     isUnique |-> json.isUnique, isForeignKey |-> json.isForeignKey,
     foreignKeyRelation |->
        IF "foreignKeyRelation" \in DOMAIN json
        THEN Some(relationOfJson(json.foreignKeyRelation))
        ELSE None]

\* a parsed entity as setEntities stores it: with the fields the document gave it
entityOfJson(json) ==
    IF "ui" \in DOMAIN json
    THEN [id |-> json.id, name |-> json.name,
          attributes |-> [k \in 1..Len(json.attributes) |->
                            attributeOfJson(json.attributes[k])],
          ui |-> [x |-> json.ui.x, y |-> json.ui.y]]
    ELSE [id |-> json.id, name |-> json.name,
          attributes |-> [k \in 1..Len(json.attributes) |->
                            attributeOfJson(json.attributes[k])]]

\* the designData object both revisions write
designDataOf(es, counter) ==
    [entities |-> [i \in 1..Len(es) |-> jsonOfEntity(es[i])],
     entityCounter |-> counter]

\* the document a save writes: designData itself, or the saveObject around it
\* (savedAt, backendSummary and frontendSchema are left out of the model)
documentOf(es, counter) ==
    IF revision = "tsx" THEN designDataOf(es, counter)
    ELSE [type |-> "flowmancer", version |-> "1.0",
          designData |-> designDataOf(es, counter)]

\* the extension of the file name a save downloads
extensionOf == IF revision = "tsx" THEN "json" ELSE "flowmancer"

\* handleSaveDesign
handleSaveDesign ==
    /\ IF Len(entities) = 0
       THEN /\ UNCHANGED file
            /\ lastOp' = Op("save", FALSE, EmptyStr)
       ELSE /\ file' = Some([extension |-> extensionOf,
                              document |-> documentOf(entities, entityCounter),
                              model |-> [entities |-> entities,
                                         entityCounter |-> entityCounter]])
            /\ lastOp' = Op("save", TRUE, EmptyStr)
    /\ sent' = None
    /\ UNCHANGED <<revision, scroll, now, entities, selectedEntityId, entityCounter, ModalVars,
                   DragVars, CallVars>>

\* a JSON object without the field `name`
withoutField(json, name) == [f \in DOMAIN json \ {name} |-> json[f]]

\* designData with the fields named in `removed` deleted by hand: "ui" from every
\* entity, "entityCounter" from designData
designDataWithout(dd, removed) ==
    LET es == IF "ui" \in Range(removed)
              THEN [i \in 1..Len(dd.entities) |-> withoutField(dd.entities[i], "ui")]
              ELSE dd.entities
        edited == [dd EXCEPT !.entities = es]
    IN  IF "entityCounter" \in Range(removed)
        THEN withoutField(edited, "entityCounter")
        ELSE edited

\* a saved document with these fields deleted by hand
documentWithout(document, removed) ==
    IF "designData" \in DOMAIN document
    THEN [document EXCEPT !.designData = designDataWithout(@, removed)]
    ELSE designDataWithout(document, removed)

\* the checks a file passes before its design is taken over
loadable(extension, document) ==
    IF revision = "tsx"
    THEN "entities" \in DOMAIN document
    ELSE /\ extension = "flowmancer"
         /\ "type" \in DOMAIN document
         /\ document.type = "flowmancer"
         /\ "designData" \in DOMAIN document
         /\ "entities" \in DOMAIN document.designData

\* designData.entityCounter || designData.entities.length, in revision "p5"
\* parsed.designData.entityCounter || 0
loadedCounter(dd) ==
    IF "entityCounter" \in DOMAIN dd /\ dd.entityCounter # 0 THEN dd.entityCounter
    ELSE IF revision = "tsx" THEN Len(dd.entities)
    ELSE 0

\* handleLoadDesign with the reader's onload, for a file with this extension and
\* document; `removed` records what the file lacks
handleLoadDesign(extension, document, removed) ==
    LET ok == loadable(extension, document)
        dd == IF revision = "tsx" THEN document ELSE document.designData
    IN  /\ IF ok
           THEN /\ entities' = [i \in 1..Len(dd.entities) |-> entityOfJson(dd.entities[i])]
                /\ entityCounter' = loadedCounter(dd)
                /\ selectedEntityId' = NullId
           ELSE UNCHANGED <<entities, entityCounter, selectedEntityId>>
        /\ lastOp' = Op("load", ok, removed)
        /\ sent' = None
        /\ UNCHANGED <<revision, scroll, now, ModalVars, DragVars, file, CallVars>>

-----------------------------------------------------------------------------
(* The designer's operations, the modal taken as one step *)

Init ==
    /\ revision \in {"tsx", "p5"}
    /\ now = 1
    /\ entities = <<>>
    /\ selectedEntityId = NullId
    /\ entityCounter = 0
    /\ isAttributeModalOpen = FALSE
    /\ editingAttribute = None
    /\ form = initialForm
    /\ isFk = FALSE
    /\ nnDisabled = FALSE
    /\ sent = None
    /\ draggedEntity = None
    /\ touchStart = None
    /\ swipe = "none"
    /\ pointer = [held |-> "none", presses |-> 0, at |-> [x |-> 0, y |-> 0],
                  index |-> 0, from |-> [x |-> 0, y |-> 0]]
    /\ file = None
    /\ requests = <<>>
    /\ isLoading = FALSE
    /\ scroll = [x |-> 0, y |-> 0]
    /\ lastOp = Op("init", TRUE, EmptyStr)

\* the modal covers the designer while it is open
Idle == ~isAttributeModalOpen

\* the toolbar's buttons are disabled while a call is loading (revision "p5")
ToolbarEnabled == revision = "p5" => ~isLoading

\* Toolbar "Add Entity", at most maxCounter times
AddEntity(maxCounter) ==
    /\ Idle
    /\ ToolbarEnabled
    /\ entityCounter < maxCounter
    /\ \E t \in {now, now + 1} : ReadClock(t) /\ handleAddEntity(t)

\* a click on an entity card
SelectEntity ==
    /\ Idle
    /\ \E i \in 1..Len(entities) : handleSelectEntity(entities[i].id)

\* the "Entity Name" input of the properties panel receives one of `inputs`
RenameEntity(inputs) ==
    /\ Idle
    /\ selectedEntity # None
    /\ \E newName \in inputs : handleUpdateEntityName(selectedEntity[1].id, newName)

\* the panel's "Delete Entity"
DeleteEntity ==
    /\ Idle
    /\ selectedEntity # None
    /\ handleDeleteEntity(selectedEntity[1].id)

\* the forms the editor is left with in this model, the name drawn from `names`:
\* a primary key is called "k" (in either case) and is no foreign key, a foreign key
\* is called "f"
editorForms(attribute, names) ==
    {f \in sessionForms(selectedEntity[1], attribute, names, {"String"},
                        BOOLEAN, {TRUE}, {FALSE}) :
        /\ f.isPrimaryKey => (toLowerCase(f.name) = <<"k">> /\ ~f.isForeignKey)
        /\ f.isForeignKey => f.name = <<"f">>}

\* the panel's "Add Attribute": a visit to the editor that ends with one of the forms
AddAttribute(maxAttrs, names) ==
    /\ Idle
    /\ selectedEntity # None
    /\ Len(selectedEntity[1].attributes) < maxAttrs
    /\ \E t \in {now, now + 1} :
       \E f \in editorForms(None, names) : ReadClock(t) /\ attributeSession(None, f, t)

\* the panel's "Edit" on an attribute of the selected entity
EditAttribute(names) ==
    /\ Idle
    /\ selectedEntity # None
    /\ \E k \in 1..Len(selectedEntity[1].attributes) :
       LET attribute == selectedEntity[1].attributes[k]
       IN  \E f \in editorForms(Some(attribute), names) :
                attributeSession(Some(attribute.id), f, now)

\* the panel's "Delete" on an attribute of the selected entity
DeleteAttribute ==
    /\ Idle
    /\ selectedEntity # None
    /\ \E k \in 1..Len(selectedEntity[1].attributes) :
            handleDeleteAttribute(selectedEntity[1].id, selectedEntity[1].attributes[k].id)

\* Toolbar "Generate"
GenerateCode ==
    /\ Idle
    /\ ToolbarEnabled
    /\ Len(requests) < MaxPending
    /\ handleGenerateCode

\* the prompts the AI design popover is sent with
DesignPrompts == {EmptyStr, <<" ">>, <<"p">>}

\* "Generate" in the AI design popover (revision "p5"); the button is not disabled
\* while a call is loading
SendDesignPrompt ==
    /\ Idle
    /\ revision = "p5"
    /\ Len(requests) < MaxPending
    /\ \E designPrompt \in DesignPrompts : handleSendDesignPrompt(designPrompt)

\* the entities an answer of /generate-ai-schema can hold: without id and position,
\* or with them
DesignEntities ==
    {[id |-> None, name |-> <<"A">>, attributes |-> <<>>, ui |-> None],
     [id |-> Some(1), name |-> <<"B">>, attributes |-> <<>>,
      ui |-> Some([x |-> 10, y |-> 0])]}

\* the answers a call can get
Responses ==
    {Rejected, NonOk, Unparsable, EmptyBody, Generated}
    \cup {Designed(design) : design \in SeqsUpTo(DesignEntities, MaxDesign)}

\* a call is answered: the continuation of its handler runs
Settle ==
    \E i \in 1..Len(requests) : \E response \in Responses :
        IF requests[i] = "generate"
        THEN settleGenerate(i, response)
        ELSE \E t \in {now, now + 1} : ReadClock(t) /\ settleDesign(i, response, t)

-----------------------------------------------------------------------------
(* Spec: entities, their names, and the references between them *)

\* a name one character longer than the later revision accepts
LongName == [i \in 1..(MaxNameLength + 1) |-> "x"]

\* what the "Entity Name" input receives: nothing, a blank, a padded name that
\* differs only in case from the name the second "Add Entity" generates, and a
\* name that is too long
RenameInputs ==
    {EmptyStr, <<" ">>, <<" ">> \o toLowerCase(NewEntityName(2)), LongName}

\* what the "Attribute Name" input is left with
KeyNames == {<<"k">>, <<"f">>}

Next ==
    \/ AddEntity(MaxCounter)
    \/ SelectEntity
    \/ RenameEntity(RenameInputs)
    \/ DeleteEntity
    \/ AddAttribute(MaxAttrs, KeyNames)
    \/ EditAttribute(KeyNames)
    \/ DeleteAttribute

Spec == Init /\ [][Next]_vars

-----------------------------------------------------------------------------
(* SpecEditor: the attributes of an entity, through the editor *)

\* what the "Attribute Name" input is left with: nothing, and names of which two
\* differ only in case
AttrNameInputs == {<<"k">>, <<"K">>, <<"f">>}

NextEditor ==
    \/ AddEntity(EditorMaxCounter)
    \/ SelectEntity
    \/ RenameEntity({<<"A">>})
    \/ DeleteEntity
    \/ AddAttribute(EditorMaxAttrs, AttrNameInputs)
    \/ EditAttribute(AttrNameInputs)
    \/ DeleteAttribute

SpecEditor == Init /\ [][NextEditor]_vars

-----------------------------------------------------------------------------
(* SpecModal: the editor field by field *)

\* the panel's "Add Attribute" opens the editor
OpenAddAttribute ==
    /\ Idle
    /\ selectedEntity # None
    /\ Len(selectedEntity[1].attributes) < ModalMaxAttrs
    /\ handleOpenAttributeModal(selectedEntity[1].id, None)

\* the panel's "Edit" opens the editor on an attribute
OpenEditAttribute ==
    /\ Idle
    /\ selectedEntity # None
    /\ \E k \in 1..Len(selectedEntity[1].attributes) :
            handleOpenAttributeModal(selectedEntity[1].id,
                                     Some(selectedEntity[1].attributes[k].id))

TypeName == \E value \in {<<"k">>} : value # form.name /\ onNameChange(value)

TogglePk == onPkChange(~form.isPrimaryKey)

ToggleNn == onNnChange(~form.isNotNull)

ToggleFk == onFkChange(~form.isForeignKey)

PickReferencesEntity ==
    \E i \in 1..Len(entities) : onReferencesEntityChange(entities[i].name)

PickReferencesField ==
    \E i \in 1..Len(entities) : \E k \in 1..Len(entities[i].attributes) :
        /\ form.referencesField # Some(entities[i].attributes[k].name)
        /\ onReferencesFieldChange(entities[i].attributes[k].name)

Save == \E t \in {now, now + 1} : ReadClock(t) /\ handleSave(t)

Cancel == onCancel

NextModal ==
    \/ AddEntity(ModalMaxCounter)
    \/ SelectEntity
    \/ OpenAddAttribute
    \/ OpenEditAttribute
    \/ TypeName
    \/ TogglePk
    \/ ToggleNn
    \/ ToggleFk
    \/ PickReferencesEntity
    \/ PickReferencesField
    \/ Save
    \/ Cancel

SpecModal == Init /\ [][NextModal]_vars

-----------------------------------------------------------------------------
(* SpecDerive: deriveRelationshipsFromFks on the models the designer can hold *)

\* attributes as a loaded design can hold them: named f or g, no foreign key, or a
\* foreign key to A or to B, or a foreign key whose relation names no entity
DeriveAttributes ==
    {[id |-> 1, name |-> n, type |-> "String",
      isPrimaryKey |-> FALSE, isNotNull |-> FALSE, isUnique |-> FALSE,
      isForeignKey |-> r.fk, foreignKeyRelation |-> r.rel] :
        n \in {<<"f">>, <<"g">>},
        r \in {[fk |-> FALSE, rel |-> None],
               [fk |-> TRUE,
                rel |-> Some([referencesEntity |-> Some(<<"A">>),
                              referencesField |-> Some(<<"k">>)])],
               [fk |-> TRUE,
                rel |-> Some([referencesEntity |-> Some(<<"B">>),
                              referencesField |-> Some(<<"k">>)])],
               [fk |-> TRUE,
                rel |-> Some([referencesEntity |-> None, referencesField |-> None])]}}

\* entities named A or B holding up to DeriveMaxAttrs of these attributes; names of
\* attributes, and of entities, may repeat
DeriveEntities ==
    {[id |-> 1, name |-> n, attributes |-> as, ui |-> [x |-> 50, y |-> 50]] :
        n \in {<<"A">>, <<"B">>}, as \in SeqsUpTo(DeriveAttributes, DeriveMaxAttrs)}

\* the designer after a design with one to DeriveMaxEntities such entities was loaded
InitDerive ==
    /\ revision \in {"tsx", "p5"}
    /\ now = 1
    /\ entities \in SeqsUpTo(DeriveEntities, DeriveMaxEntities) \ {<<>>}
    /\ selectedEntityId = NullId
    /\ entityCounter = Len(entities)
    /\ isAttributeModalOpen = FALSE
    /\ editingAttribute = None
    /\ form = initialForm
    /\ isFk = FALSE
    /\ nnDisabled = FALSE
    /\ sent = None
    /\ draggedEntity = None
    /\ touchStart = None
    /\ swipe = "none"
    /\ pointer = [held |-> "none", presses |-> 0, at |-> [x |-> 0, y |-> 0],
                  index |-> 0, from |-> [x |-> 0, y |-> 0]]
    /\ file = None
    /\ requests = <<>>
    /\ isLoading = FALSE
    /\ scroll = [x |-> 0, y |-> 0]
    /\ lastOp = Op("init", TRUE, EmptyStr)

NextDerive ==
    \/ GenerateCode
    \/ Settle

SpecDerive == InitDerive /\ [][NextDerive]_vars

-----------------------------------------------------------------------------
(* SpecRelations: deriveRelationshipsFromFks on models with unique and plain   *)
(* foreign keys, and with attributes that keep a relation without the flag     *)

\* attributes named f, unique or not: no foreign key, a foreign key to A, a foreign
\* key whose referenced entity is empty, and a relation left on an attribute that
\* is no foreign key
RelAttributes ==
    {[id |-> 1, name |-> <<"f">>, type |-> "String",
      isPrimaryKey |-> FALSE, isNotNull |-> FALSE, isUnique |-> un,
      isForeignKey |-> r.fk, foreignKeyRelation |-> r.rel] :
        un \in BOOLEAN,
        r \in {[fk |-> FALSE, rel |-> None],
               [fk |-> TRUE,
                rel |-> Some([referencesEntity |-> Some(<<"A">>),
                              referencesField |-> Some(<<"k">>)])],
               [fk |-> TRUE,
                rel |-> Some([referencesEntity |-> Some(EmptyStr),
                              referencesField |-> Some(<<"k">>)])],
               [fk |-> FALSE,
                rel |-> Some([referencesEntity |-> Some(<<"A">>),
                              referencesField |-> Some(<<"k">>)])]}}

\* entities named A or B holding up to RelMaxAttrs of these attributes
RelEntities ==
    {[id |-> 1, name |-> n, attributes |-> as, ui |-> [x |-> 50, y |-> 50]] :
        n \in {<<"A">>, <<"B">>}, as \in SeqsUpTo(RelAttributes, RelMaxAttrs)}

\* the designer after a design with one to RelMaxEntities such entities was loaded
InitRelations ==
    /\ revision \in {"tsx", "p5"}
    /\ now = 1
    /\ entities \in SeqsUpTo(RelEntities, RelMaxEntities) \ {<<>>}
    /\ selectedEntityId = NullId
    /\ entityCounter = Len(entities)
    /\ isAttributeModalOpen = FALSE
    /\ editingAttribute = None
    /\ form = initialForm
    /\ isFk = FALSE
    /\ nnDisabled = FALSE
    /\ sent = None
    /\ draggedEntity = None
    /\ touchStart = None
    /\ swipe = "none"
    /\ pointer = [held |-> "none", presses |-> 0, at |-> [x |-> 0, y |-> 0],
                  index |-> 0, from |-> [x |-> 0, y |-> 0]]
    /\ file = None
    /\ requests = <<>>
    /\ isLoading = FALSE
    /\ scroll = [x |-> 0, y |-> 0]
    /\ lastOp = Op("init", TRUE, EmptyStr)

NextRelations == GenerateCode

SpecRelations == InitRelations /\ [][NextRelations]_vars

-----------------------------------------------------------------------------
(* SpecDrag: entities dragged over the canvas with the mouse or a finger.  One *)
(* pointer presses at a time, and a release follows a press of the same kind. *)

Point(x, y) == [x |-> x, y |-> y]

\* where the pointer is when an event fires
PointerPositions ==
    {Point(60, 55), Point(100, 120), Point(100, 100), Point(200, 100),
     Point(100, 140), Point(110, 105)}

\* the pointer's next press: at p, on the card of the entity at index i, which is at
\* position from (index 0 and the origin when it is pressed beside the cards)
pressing(held, p, i, from) ==
    /\ pointer.held = "none"
    /\ pointer.presses < MaxPresses
    /\ pointer' = [held |-> held, presses |-> pointer.presses + 1, at |-> p,
                   index |-> i, from |-> from]

releasing == pointer' = [pointer EXCEPT !.held = "none"]

\* mouse down on an entity card
MouseDown ==
    \E i \in 1..Len(entities) : \E p \in PointerPositions :
        /\ pressing("mouse", p, i, entities[i].ui)
        /\ handleDragStart(p, entities[i])

\* the mouse moves over the main area, its button down or not
MouseMove ==
    /\ pointer.held \in {"none", "mouse"}
    /\ UNCHANGED pointer
    /\ \E p \in PointerPositions : handleDragMove(p)

\* mouse up over the main area
MouseUp ==
    /\ pointer.held = "mouse"
    /\ releasing
    /\ handleDragEnd

\* the mouse leaves the main area; a button still down is released out of sight
MouseLeave ==
    /\ pointer.held \in {"none", "mouse"}
    /\ releasing
    /\ handleDragEnd

\* a finger is put down on an entity card
TouchStart ==
    /\ revision = "p5"
    /\ \E i \in 1..Len(entities) : \E p \in PointerPositions :
            /\ pressing("touch", p, i, entities[i].ui)
            /\ handleTouchStart(p, entities[i])

\* a finger is put down on the canvas beside the cards: no handler is bound
TouchCanvas ==
    /\ revision = "p5"
    /\ \E p \in PointerPositions : pressing("canvas", p, 0, Point(0, 0))
    /\ lastOp' = Op("touchCanvas", TRUE, EmptyStr)
    /\ UNCHANGED <<revision, scroll, now, entities, selectedEntityId, entityCounter, sent,
                   draggedEntity, touchStart, swipe, ModalVars, file, CallVars>>

\* the finger moves
TouchMove ==
    /\ pointer.held \in {"touch", "canvas"}
    /\ UNCHANGED pointer
    /\ \E p \in PointerPositions : handleTouchMove(p)

\* the finger is lifted
TouchEnd ==
    /\ pointer.held \in {"touch", "canvas"}
    /\ releasing
    /\ \E p \in PointerPositions : handleTouchEnd(p)

\* Toolbar "Add Entity", while nothing is held
AddEntityToDrag ==
    /\ pointer.held = "none"
    /\ UNCHANGED pointer
    /\ AddEntity(DragMaxCounter)

NextDrag ==
    \/ AddEntityToDrag
    \/ MouseDown
    \/ MouseMove
    \/ MouseUp
    \/ MouseLeave
    \/ TouchStart
    \/ TouchCanvas
    \/ TouchMove
    \/ TouchEnd

SpecDrag == Init /\ [][NextDrag]_vars

-----------------------------------------------------------------------------
(* SpecPress: a second press while a card is held.  A second finger can be put *)
(* down on a card, and a second mouse button can go down over a card, before   *)
(* the first is released; `pointer` keeps following the first press.           *)

\* where the pointer or a finger is when an event fires
PressPositions == {Point(60, 55), Point(100, 120)}

\* the first press of a session
firstPress(held, p, i, from) ==
    /\ pointer.held = "none"
    /\ pointer.presses < PressMaxPresses
    /\ pointer' = [held |-> held, presses |-> pointer.presses + 1, at |-> p,
                   index |-> i, from |-> from]

\* a further press while the first is held
secondPress(held) ==
    /\ pointer.held = held
    /\ pointer.presses < PressMaxPresses
    /\ pointer' = [pointer EXCEPT !.presses = @ + 1]

\* mouse down on an entity card
FirstMouseDown ==
    \E i \in 1..Len(entities) : \E p \in PressPositions :
        /\ firstPress("mouse", p, i, entities[i].ui)
        /\ handleDragStart(p, entities[i])

\* the card of this entity extends over p: its corner is not right of or below p
over(entity, p) == entity.ui.x <= p.x /\ entity.ui.y <= p.y

\* another mouse button goes down while the first is held, where the mouse was at
\* its last event, on a card that extends over that point
SecondMouseDown ==
    /\ lastOp.op \in {"dragStart", "dragMove"}
    /\ LET p == Point(lastOp.arg[1], lastOp.arg[2])
       IN  \E i \in 1..Len(entities) :
                /\ over(entities[i], p)
                /\ secondPress("mouse")
                /\ handleDragStart(p, entities[i])

\* a finger is put down on an entity card
FirstTouchStart ==
    /\ revision = "p5"
    /\ \E i \in 1..Len(entities) : \E p \in PressPositions :
            /\ firstPress("touch", p, i, entities[i].ui)
            /\ handleTouchStart(p, entities[i])

\* a second finger is put down at p on an entity card while the first is held; the
\* handler reads e.touches[0], which is either finger (the order of the list is
\* not fixed), the first finger being where its last event left it
SecondTouchStart ==
    /\ revision = "p5"
    /\ lastOp.op \in {"touchStart", "touchMove"}
    /\ \E i \in 1..Len(entities) : \E p \in PressPositions :
       \E touch \in {p, Point(lastOp.arg[1], lastOp.arg[2])} :
            /\ over(entities[i], p)
            /\ secondPress("touch")
            /\ handleTouchStart(touch, entities[i])

\* the mouse moves over the main area while a button is down
HeldMouseMove ==
    /\ pointer.held = "mouse"
    /\ UNCHANGED pointer
    /\ \E p \in PressPositions : handleDragMove(p)

\* the first finger moves
HeldTouchMove ==
    /\ pointer.held = "touch"
    /\ UNCHANGED pointer
    /\ \E p \in PressPositions : handleTouchMove(p)

\* a finger is lifted
HeldTouchEnd ==
    /\ pointer.held = "touch"
    /\ releasing
    /\ \E p \in PressPositions : handleTouchEnd(p)

\* Toolbar "Add Entity", while nothing is held
AddEntityToPress ==
    /\ pointer.held = "none"
    /\ UNCHANGED pointer
    /\ AddEntity(PressMaxCounter)

NextPress ==
    \/ AddEntityToPress
    \/ FirstMouseDown
    \/ SecondMouseDown
    \/ HeldMouseMove
    \/ MouseUp
    \/ FirstTouchStart
    \/ SecondTouchStart
    \/ HeldTouchMove
    \/ HeldTouchEnd

SpecPress == Init /\ [][NextPress]_vars

-----------------------------------------------------------------------------
(* SpecSwipe: touches released in every direction from where they started *)

\* where a finger is put down
SwipeStarts == {Point(100, 100)}

\* where a finger is lifted: displacements along one axis, at the threshold and one
\* beyond it, below it, and beyond it on both axes with either axis the larger or
\* both equal
SwipePositions ==
    {Point(200, 100), Point(0, 100), Point(100, 200), Point(100, 0),
     Point(150, 100), Point(151, 100), Point(100, 49), Point(110, 105),
     Point(160, 170), Point(170, 160), Point(160, 160), Point(40, 160), Point(100, 100)}

\* a finger is put down on an entity card
SwipeStart ==
    /\ revision = "p5"
    /\ pointer.held = "none"
    /\ pointer.presses < SwipeMaxPresses
    /\ \E i \in 1..Len(entities) : \E p \in SwipeStarts :
            /\ pointer' = [held |-> "touch", presses |-> pointer.presses + 1, at |-> p,
                           index |-> i, from |-> entities[i].ui]
            /\ handleTouchStart(p, entities[i])

\* the finger is lifted
SwipeEnd ==
    /\ pointer.held = "touch"
    /\ releasing
    /\ \E p \in SwipePositions : handleTouchEnd(p)

\* Toolbar "Add Entity", while nothing is held
AddEntityToSwipe ==
    /\ pointer.held = "none"
    /\ UNCHANGED pointer
    /\ AddEntity(SwipeMaxCounter)

NextSwipe ==
    \/ AddEntityToSwipe
    \/ SwipeStart
    \/ HeldTouchMove
    \/ SwipeEnd

SpecSwipe == Init /\ [][NextSwipe]_vars

-----------------------------------------------------------------------------
(* SpecGrid: entities added while the canvas is scrolled *)

\* the scroll origins the user can bring the canvas area to
ScrollOrigins == {Point(0, 0), Point(120, 0), Point(0, 60)}

\* the user scrolls the canvas area, which some card extends beyond the view (the
\* size of the view is the user's): no handler is bound
ScrollCanvas ==
    /\ Len(entities) > 0
    /\ \E origin \in ScrollOrigins : origin # scroll /\ scroll' = origin
    /\ lastOp' = Op("scroll", TRUE, EmptyStr)
    /\ UNCHANGED <<revision, now, entities, selectedEntityId, entityCounter, sent,
                   ModalVars, DragVars, file, CallVars>>

\* the panel's "Delete Entity" while another entity stays on the canvas
DeleteOneOfMany ==
    /\ Len(entities) > 1
    /\ DeleteEntity

NextGrid ==
    \/ AddEntity(GridMaxCounter)
    \/ DeleteOneOfMany
    \/ ScrollCanvas

SpecGrid == Init /\ [][NextGrid]_vars

-----------------------------------------------------------------------------
(* SpecBackend: code generation and AI design requests with their answers *)

NextBackend ==
    \/ AddEntity(BackendMaxCounter)
    \/ SelectEntity
    \/ AddAttribute(BackendMaxAttrs, KeyNames)
    \/ DeleteAttribute
    \/ GenerateCode
    \/ SendDesignPrompt
    \/ Settle

SpecBackend == Init /\ [][NextBackend]_vars

-----------------------------------------------------------------------------
(* SpecFile: designs saved to a file and loaded again *)

\* Toolbar "Save"
SaveDesign ==
    /\ Idle
    /\ ToolbarEnabled
    /\ handleSaveDesign

\* the fields a file can have lost to an edit by hand
RemovedFields == {<<>>, <<"ui">>, <<"entityCounter">>, <<"ui", "entityCounter">>}

\* Toolbar "Load", given the file the last save wrote, as written or edited by hand
LoadDesign ==
    /\ Idle
    /\ ToolbarEnabled
    /\ file # None
    /\ \E removed \in RemovedFields :
            handleLoadDesign(file[1].extension,
                             documentWithout(file[1].document, removed), removed)

\* Toolbar "Add Entity" while the design has fewer than FileMaxEntities entities: a
\* load can lower the counter
AddEntityToFile ==
    /\ Len(entities) < FileMaxEntities
    /\ AddEntity(FileMaxCounter)

NextFile ==
    \/ AddEntityToFile
    \/ DeleteEntity
    \/ AddAttribute(FileMaxAttrs, KeyNames)
    \/ SaveDesign
    \/ LoadDesign

SpecFile == Init /\ [][NextFile]_vars

-----------------------------------------------------------------------------
(* SpecSelection: the selection while entities are deleted, loaded or replaced *)
(* by an AI design                                                             *)

\* Toolbar "Add Entity" while the design has fewer than SelMaxEntities entities: a
\* load or an AI design can lower the counter
AddEntityToSelection ==
    /\ Len(entities) < SelMaxEntities
    /\ AddEntity(SelMaxCounter)

NextSelection ==
    \/ AddEntityToSelection
    \/ SelectEntity
    \/ DeleteEntity
    \/ SaveDesign
    \/ LoadDesign
    \/ SendDesignPrompt
    \/ Settle

SpecSelection == Init /\ [][NextSelection]_vars

-----------------------------------------------------------------------------
(* SpecLoading: the loading flag from a request to its answer. Every call that *)
(* is in flight is answered: fetch resolves or rejects, and the continuation   *)
(* of the handler runs                                                         *)

NextLoading ==
    \/ AddEntity(LoadingMaxCounter)
    \/ SelectEntity
    \/ DeleteEntity
    \/ GenerateCode
    \/ SendDesignPrompt
    \/ Settle

SpecLoading == Init /\ [][NextLoading]_vars /\ WF_vars(Settle)

-----------------------------------------------------------------------------
(* Properties *)

\* the positions (entity, attribute) of the foreign keys of es that reference `name`
referencesOf(es, name) ==
    UNION {{<<i, k>> : k \in {x \in 1..Len(es[i].attributes) :
                                referencesEntityNamed(es[i].attributes[x], name)}} :
           i \in 1..Len(es)}

\* the step is a run of the handler `name`
Ran(name) == lastOp'.op = name

\* no two entities of es share an id
distinctIds(es) == \A i, j \in 1..Len(es) : i # j => es[i].id # es[j].id

\* C1: in every reachable state no two distinct entities (entities with different
\* ids) have names that are equal when compared case-insensitively
C1_EntityNamesUnique ==
    \A i, j \in 1..Len(entities) :
        entities[i].id # entities[j].id
            => toLowerCase(entities[i].name) # toLowerCase(entities[j].name)

\* C2: an accepted rename of the entity named old to newName leaves every foreign
\* key that referenced old referencing newName, and none referencing old (stated
\* for models in which no two entities share an id)
C2_RenameRewritesReferences ==
    [][(Ran("rename") /\ lastOp'.ok /\ distinctIds(entities)) =>
            LET old == selectedEntity[1].name
                newName == trim(lastOp'.arg)
            IN  /\ referencesOf(entities, old) \subseteq referencesOf(entities', newName)
                /\ old # newName => referencesOf(entities', old) = {}]_vars

\* C3: deleteEntity(id) removes every entity with that id, and with each of them
\* every foreign key that referenced its name
C3_DeleteRemovesReferences ==
    [][(Ran("delete") /\ lastOp'.ok) =>
            \A i \in 1..Len(entities) :
                entities[i].id = selectedEntityId =>
                    /\ \A j \in 1..Len(entities') : entities'[j].id # selectedEntityId
                    /\ referencesOf(entities', entities[i].name) = {}]_vars

\* every foreign key of es references, by name, an entity of es
noDanglingReference(es) ==
    \A i \in 1..Len(es) : \A k \in 1..Len(es[i].attributes) :
        LET attr == es[i].attributes[k]
        IN  attr.isForeignKey =>
                /\ attr.foreignKeyRelation # None
                /\ \E j \in 1..Len(es) :
                        attr.foreignKeyRelation[1].referencesEntity = Some(es[j].name)

\* C4: no dangling entity reference ever exists: the empty model has none, and no
\* operation started in a model that has none (and in which no two entities share an
\* id) ends in a model that has one
C4_NoDanglingReference ==
    [][(noDanglingReference(entities) /\ distinctIds(entities))
            => noDanglingReference(entities')]_vars

\* the position of the entity a handler given selectedEntityId works on
selectedIndex ==
    CHOOSE i \in 1..Len(entities) :
        /\ entities[i].id = selectedEntityId
        /\ \A j \in 1..(i - 1) : entities[j].id # selectedEntityId

\* C7: a rename to a name that is empty after trimming is rejected and changes
\* neither a name nor a reference
C7_EmptyRenameRejected ==
    [][(Ran("rename") /\ trim(lastOp'.arg) = EmptyStr)
            => (~lastOp'.ok /\ entities' = entities)]_vars

\* C8: a rename to a name that equals, ignoring case, the name of another entity of
\* the model is rejected and changes nothing; a rename to a case-variant of the
\* entity's own name that collides with no other entity is accepted
C8_CollidingRenameRejected ==
    [][Ran("rename") =>
            LET newName == trim(lastOp'.arg)
                ownName == entities[selectedIndex].name
                collides ==
                    \E i \in 1..Len(entities) :
                        /\ i # selectedIndex
                        /\ toLowerCase(entities[i].name) = toLowerCase(newName)
            IN  /\ collides => (~lastOp'.ok /\ entities' = entities)
                /\ (/\ ~collides
                    /\ newName # EmptyStr
                    /\ toLowerCase(newName) = toLowerCase(ownName))
                        => (lastOp'.ok /\ entities'[selectedIndex].name = newName)]_vars

\* C9: the state a rename leaves behind (the first another handler or the view can
\* observe) never shows the entity under a new name while a foreign key still
\* references the name it had (stated for models in which no two entities share an id)
C9_RenameAtomic ==
    [][(Ran("rename") /\ distinctIds(entities)) =>
            LET old == entities[selectedIndex].name
            IN  entities'[selectedIndex].name # old
                    => referencesOf(entities', old) = {}]_vars

\* the reference of a foreign key resolves to an entity of es and one of its attributes
resolves(es, attr) ==
    /\ attr.foreignKeyRelation # None
    /\ truthy(attr.foreignKeyRelation[1].referencesEntity)
    /\ truthy(attr.foreignKeyRelation[1].referencesField)
    /\ \E j \in 1..Len(es) : \E k \in 1..Len(es[j].attributes) :
            /\ es[j].name = attr.foreignKeyRelation[1].referencesEntity[1]
            /\ es[j].attributes[k].name = attr.foreignKeyRelation[1].referencesField[1]

\* C10: a request is sent for generation only if every foreign key of the model has
\* a non-empty reference that resolves to an existing entity and attribute (stated
\* for models in which no two entities share an id, no entity name is empty and
\* every referenced entity exists)
C10_GenerateRejectsUnresolved ==
    (/\ sent # None
     /\ distinctIds(entities)
     /\ \A i \in 1..Len(entities) : entities[i].name # EmptyStr
     /\ noDanglingReference(entities)) =>
        \A i \in 1..Len(entities) : \A k \in 1..Len(entities[i].attributes) :
            entities[i].attributes[k].isForeignKey
                => resolves(entities, entities[i].attributes[k])

\* C5: in every reachable state no two attributes of one entity have names that
\* are equal when compared case-insensitively
C5_AttributeNamesUnique ==
    \A i \in 1..Len(entities) :
        \A k, l \in 1..Len(entities[i].attributes) :
            k # l => toLowerCase(entities[i].attributes[k].name)
                        # toLowerCase(entities[i].attributes[l].name)

\* a save was refused for a name that differs only in case from the name of an
\* attribute of the selected entity, which holds two attributes
C5_Witness ==
    /\ lastOp.op = "saveAttribute"
    /\ ~lastOp.ok
    /\ selectedEntity # None
    /\ Len(selectedEntity[1].attributes) = 2
    /\ \E k \in 1..Len(selectedEntity[1].attributes) :
            /\ selectedEntity[1].attributes[k].name # lastOp.arg
            /\ toLowerCase(selectedEntity[1].attributes[k].name) = toLowerCase(lastOp.arg)

\* C6: after any save, whatever checkbox edits preceded it, every stored attribute
\* that is a primary key is not null
C6_PrimaryKeyIsNotNull ==
    \A i \in 1..Len(entities) : \A k \in 1..Len(entities[i].attributes) :
        entities[i].attributes[k].isPrimaryKey => entities[i].attributes[k].isNotNull

\* C11: a save of a form whose isForeignKey is set while referencesEntity or
\* referencesField is missing is rejected and leaves every attribute list unchanged
C11_IncompleteForeignKeyRejected ==
    [][(/\ Ran("saveAttribute")
        /\ form.isForeignKey
        /\ (~truthy(form.referencesEntity) \/ ~truthy(form.referencesField)))
            => (~lastOp'.ok /\ entities' = entities)]_vars

\* Save was refused for a new attribute with a name, the foreign key flag and a
\* referenced entity, but no referenced field
C11_Witness ==
    /\ lastOp.op = "saveAttribute"
    /\ ~lastOp.ok
    /\ isAttributeModalOpen
    /\ editingAttribute = None
    /\ form.name # EmptyStr
    /\ form.isForeignKey
    /\ truthy(form.referencesEntity)
    /\ ~truthy(form.referencesField)

upserted(old, new, name) ==
    \/ /\ Len(new) = Len(old)
       /\ \E k \in 1..Len(old) :
            /\ new[k].id = old[k].id
            /\ new[k].name = name
            /\ \A l \in 1..Len(old) : l # k => new[l] = old[l]
    \/ /\ Len(new) = Len(old) + 1
       /\ SubSeq(new, 1, Len(old)) = old
       /\ new[Len(new)].name = name
       /\ \A l \in 1..Len(old) : old[l].id # new[Len(new)].id

\* C13: an accepted attribute save is an upsert by attribute id in the target entity:
\* an attribute with that id is replaced at its index, length and the other
\* attributes unchanged, otherwise the attribute is appended at the end; the
\* attributes of every other entity are unchanged
C13_SaveIsUpsert ==
    [][(Ran("saveAttribute") /\ lastOp'.ok) =>
            /\ Len(entities') = Len(entities)
            /\ upserted(entities[selectedIndex].attributes,
                        entities'[selectedIndex].attributes, lastOp'.arg)
            /\ \A i \in 1..Len(entities) :
                    i # selectedIndex
                        => entities'[i].attributes = entities[i].attributes]_vars

\* the foreign keys of es that name an entity, as (entity index, attribute index)
foreignKeyPositions(es) ==
    UNION {{<<i, k>> : k \in {x \in 1..Len(es[i].attributes) :
                /\ es[i].attributes[x].isForeignKey
                /\ es[i].attributes[x].foreignKeyRelation # None
                /\ truthy(es[i].attributes[x].foreignKeyRelation[1].referencesEntity)}} :
           i \in 1..Len(es)}

\* the foreign key at position p of es gives the relationship r
relationshipAt(es, p, r) ==
    /\ r.from_entity = es[p[1]].attributes[p[2]].foreignKeyRelation[1].referencesEntity[1]
    /\ r.to_entity = es[p[1]].name
    /\ r.foreign_key_in_to_entity = es[p[1]].attributes[p[2]].name

\* position p comes before position q in the scan of deriveRelationshipsFromFks
scannedBefore(p, q) == p[1] < q[1] \/ (p[1] = q[1] /\ p[2] < q[2])

\* the first foreign key of es, in scan order, that gives the relationship r
firstPosition(es, r) ==
    CHOOSE p \in foreignKeyPositions(es) :
        /\ relationshipAt(es, p, r)
        /\ \A q \in foreignKeyPositions(es) :
                relationshipAt(es, q, r) => (q = p \/ scannedBefore(p, q))

\* C14: the relationships sent are those a call on the unchanged model returns; no
\* two of them have the same (from_entity, to_entity, foreign_key_in_to_entity);
\* every foreign key that names an entity appears among them, and they are listed in
\* the order in which the scan of the entities first meets them
C14_RelationshipsDistinctAndStable ==
    sent # None =>
        LET rels == sent[1].relationships
        IN  /\ rels = deriveRelationshipsFromFks(entities)
            /\ \A j, l \in 1..Len(rels) :
                    (/\ rels[j].from_entity = rels[l].from_entity
                     /\ rels[j].to_entity = rels[l].to_entity
                     /\ rels[j].foreign_key_in_to_entity = rels[l].foreign_key_in_to_entity)
                        => j = l
            /\ \A p \in foreignKeyPositions(entities) :
                    \E j \in 1..Len(rels) : relationshipAt(entities, p, rels[j])
            /\ \A j \in 1..Len(rels) :
                    \E p \in foreignKeyPositions(entities) :
                        relationshipAt(entities, p, rels[j])
            /\ \A j, l \in 1..Len(rels) :
                    j < l => scannedBefore(firstPosition(entities, rels[j]),
                                           firstPosition(entities, rels[l]))

\* relationships were derived from a model in which two foreign keys of the same
\* name in entities of the same name reference the same entity
C14_Witness ==
    /\ sent # None
    /\ Len(sent[1].relationships) > 0
    /\ Len(sent[1].relationships) < Cardinality(foreignKeyPositions(entities))

\* the step is a move event (mouse or touch)
RanMove == Ran("dragMove") \/ Ran("touchMove")

\* C15: during a drag started by a press at p0 on an entity at e0, a move event at p
\* sets that entity's position to p - (p0 - e0), whatever moves came before
C15_PositionFollowsPointer ==
    [][(RanMove /\ pointer.held \in {"mouse", "touch"}) =>
            LET p == lastOp'.arg
                p0 == pointer.at
                e0 == pointer.from
            IN  entities'[pointer.index].ui =
                    [x |-> p[1] - (p0.x - e0.x), y |-> p[2] - (p0.y - e0.y)]]_vars

\* the entity that was at (50,50) and was pressed at (60,55) is at (90,115) after a
\* move to (100,120) that followed a move to another position
C15_Witness ==
    /\ lastOp.op \in {"dragMove", "touchMove"}
    /\ lastOp.arg = <<100, 120>>
    /\ pointer.held \in {"mouse", "touch"}
    /\ pointer.at = Point(60, 55)
    /\ pointer.from = Point(50, 50)
    /\ entities[pointer.index].ui = Point(90, 115)

C17_SwipeExamples ==
    [][(Ran("touchEnd") /\ touchStart = Some(Point(100, 100))) =>
            /\ lastOp'.arg = <<200, 100>> => swipe' = "right"
            /\ lastOp'.arg = <<100, 140>> => swipe' = "down"
            /\ lastOp'.arg = <<110, 105>> => swipe' = "none"]_vars

\* C17 as amended: with threshold 50 and a touch pressed at (100,100), a release at
\* (200,100) is a rightward swipe, and a release at (100,140) or at (110,105) is no
\* swipe (neither displacement exceeds the threshold)
C17_SwipeExamplesAmended ==
    [][(Ran("touchEnd") /\ touchStart = Some(Point(100, 100))) =>
            /\ lastOp'.arg = <<200, 100>> => swipe' = "right"
            /\ lastOp'.arg = <<100, 140>> => swipe' = "none"
            /\ lastOp'.arg = <<110, 105>> => swipe' = "none"]_vars

\* a touch pressed at (100,100) was released at (100,140) and no swipe was logged
C17_Witness ==
    /\ lastOp.op = "touchEnd"
    /\ lastOp.ok
    /\ lastOp.arg = <<100, 140>>
    /\ pointer.at = Point(100, 100)
    /\ swipe = "none"

\* C18: loading the file a save wrote, as written, gives back the model it was
\* written from: the same entities in the same order, each with its id, name,
\* position and attribute sequence, and the same entity counter
C18_SaveLoadRoundTrip ==
    [][(Ran("load") /\ lastOp'.arg = <<>>) =>
            /\ lastOp'.ok
            /\ entities' = file[1].model.entities
            /\ entityCounter' = file[1].model.entityCounter]_vars

\* a file was loaded that was written from a model with two entities at different
\* positions, one of them with a foreign key, and a counter above their number
C18_Witness ==
    /\ lastOp.op = "load"
    /\ lastOp.ok
    /\ lastOp.arg = <<>>
    /\ Len(entities) = 2
    /\ \A i \in 1..2 : "ui" \in DOMAIN entities[i]
    /\ entities[1].ui # entities[2].ui
    /\ \E i \in 1..2 : \E k \in 1..Len(entities[i].attributes) :
            entities[i].attributes[k].isForeignKey
    /\ entityCounter > 2

\* C19: a load tolerates missing fields: it succeeds, an entity the file gives no
\* position has a position afterwards, and a file without a counter sets the entity
\* counter to the number of loaded entities
C19_LoadToleratesMissingFields ==
    [][Ran("load") =>
            /\ lastOp'.ok
            /\ \A i \in 1..Len(entities') : "ui" \in DOMAIN entities'[i]
            /\ "entityCounter" \in Range(lastOp'.arg)
                    => entityCounter' = Len(entities')]_vars

FailureNames == {"rejected", "status", "unparsable", "empty"}

\* C20: a backend call that fails (the fetch rejects, the status is not OK, the body
\* is no JSON or lacks the expected field) surfaces an error and ends the loading
\* state, and neither making the call nor its failure changes the entities, the
\* entity counter or the selection
C20_FailedCallLeavesSchema ==
    [][/\ (Ran("generate") \/ Ran("design"))
            => UNCHANGED <<entities, entityCounter, selectedEntityId>>
       /\ (Ran("settle") /\ lastOp'.arg[2] \in FailureNames)
            => /\ ~lastOp'.ok
               /\ ~isLoading'
               /\ UNCHANGED <<entities, entityCounter, selectedEntityId>>]_vars

\* an AI design request has failed on a body without entities while the model had an
\* entity with attributes, selected
C20_Witness ==
    /\ lastOp.op = "settle"
    /\ ~lastOp.ok
    /\ lastOp.arg = <<"design", "empty">>
    /\ selectedEntity # None
    /\ Len(selectedEntity[1].attributes) > 0
    /\ entityCounter > 0

\* C21: a press on a card while a drag is in progress leaves the drag session of the
\* first press alone: the dragged entity id and the captured offset stay as they are
C21_SecondPressIgnored ==
    [][((Ran("dragStart") \/ Ran("touchStart")) /\ draggedEntity # None)
            => draggedEntity' = draggedEntity]_vars

\* C22: on a touch release displaced by (dx, dy) from the press point a swipe is
\* reported exactly when |dx| or |dy| exceeds the threshold, and its direction lies
\* on an axis whose displacement is not the smaller one, with the sign of the
\* displacement on that axis
C22_SwipeClassification ==
    [][(Ran("touchEnd") /\ touchStart # None) =>
            LET dx == lastOp'.arg[1] - touchStart[1].x
                dy == lastOp'.arg[2] - touchStart[1].y
            IN  /\ swipe' # "none" <=> (abs(dx) > threshold \/ abs(dy) > threshold)
                /\ swipe' = "right" => (dx > 0 /\ abs(dx) >= abs(dy))
                /\ swipe' = "left" => (dx < 0 /\ abs(dx) >= abs(dy))
                /\ swipe' = "down" => (dy > 0 /\ abs(dy) >= abs(dx))
                /\ swipe' = "up" => (dy < 0 /\ abs(dy) >= abs(dx))
                /\ abs(dx) > abs(dy) => swipe' \in {"right", "left", "none"}
                /\ abs(dy) > abs(dx) => swipe' \in {"down", "up", "none"}]_vars

\* a touch that started at (100,100) was released at (160,170): both displacements
\* exceed the threshold and the larger, vertical one gives the direction
C22_Witness ==
    /\ lastOp.op = "touchEnd"
    /\ lastOp.ok
    /\ lastOp.arg = <<160, 170>>
    /\ pointer.at = Point(100, 100)
    /\ swipe = "down"

\* C23: a move event changes only the position of the entity that was pressed: the
\* other entities keep their positions, and every entity keeps its id, its name and
\* its attributes
C23_MoveChangesOnlyDragged ==
    [][RanMove =>
            /\ Len(entities') = Len(entities)
            /\ \A i \in 1..Len(entities) :
                    /\ entities'[i].id = entities[i].id
                    /\ entities'[i].name = entities[i].name
                    /\ entities'[i].attributes = entities[i].attributes
                    /\ (pointer.held \notin {"mouse", "touch"} \/ i # pointer.index)
                            => entities'[i].ui = entities[i].ui]_vars

\* the sequence without its k-th element
withoutIndex(seq, k) == [j \in 1..(Len(seq) - 1) |-> IF j < k THEN seq[j] ELSE seq[j + 1]]

\* C24: deleting an attribute removes exactly that attribute from the selected
\* entity, keeps the order of the entity's other attributes, and leaves every other
\* entity as it is
C24_DeleteAttributeExact ==
    [][Ran("deleteAttribute") =>
            \E i \in 1..Len(entities) : \E k \in 1..Len(entities[i].attributes) :
                /\ entities[i].id = selectedEntityId
                /\ entities' = [entities EXCEPT
                                    ![i].attributes = withoutIndex(@, k)]]_vars

\* the (referenced entity, owner, attribute) triple of the foreign key at position p
tripleAt(es, p) ==
    <<es[p[1]].attributes[p[2]].foreignKeyRelation[1].referencesEntity[1],
      es[p[1]].name, es[p[1]].attributes[p[2]].name>>

\* C25: the relationships sent hold exactly one entry for each distinct triple
\* (referenced entity, owning entity, attribute name) of the attributes that are
\* foreign keys with a non-empty referenced entity, in the order in which the scan
\* first meets the triples, each with from_entity the referenced name, to_entity the
\* owner's name and type "1:N", unique or not; other attributes contribute nothing
C25_OneRelationshipPerTriple ==
    sent # None =>
        LET rels == sent[1].relationships
            triples == {tripleAt(entities, p) : p \in foreignKeyPositions(entities)}
            tripleOf(r) == <<r.from_entity, r.to_entity, r.foreign_key_in_to_entity>>
        IN  /\ Len(rels) = Cardinality(triples)
            /\ {tripleOf(rels[j]) : j \in 1..Len(rels)} = triples
            /\ \A j \in 1..Len(rels) : rels[j].type = "1:N"
            /\ \A j, l \in 1..Len(rels) :
                    j < l => scannedBefore(firstPosition(entities, rels[j]),
                                           firstPosition(entities, rels[l]))

\* relationships were sent for a model with a unique foreign key, a repeated triple,
\* a foreign key with an empty referenced entity or a relation on an attribute that
\* is no foreign key, and two relationships came out
C25_Witness ==
    /\ sent # None
    /\ Len(sent[1].relationships) = 2
    /\ \E p \in foreignKeyPositions(entities) : entities[p[1]].attributes[p[2]].isUnique
    /\ Cardinality(foreignKeyPositions(entities)) > 2
    /\ \E i \in 1..Len(entities) : \E k \in 1..Len(entities[i].attributes) :
            LET attr == entities[i].attributes[k]
            IN  attr.foreignKeyRelation # None
                /\ (~attr.isForeignKey \/ ~truthy(attr.foreignKeyRelation[1].referencesEntity))

\* C26: every add succeeds, raises the entity counter by exactly one and appends one
\* entity without attributes whose name is NewEntity followed by the new counter
\* value; no other operation changes the counter, so it never decreases and an add
\* never takes a number that was used before
C26_AddCountsUp ==
    [][/\ Ran("add") =>
            /\ lastOp'.ok
            /\ entityCounter' = entityCounter + 1
            /\ Len(entities') = Len(entities) + 1
            /\ SubSeq(entities', 1, Len(entities)) = entities
            /\ entities'[Len(entities')].attributes = <<>>
            /\ entities'[Len(entities')].name
                    = NewEntityPrefix \o numberToString(entityCounter')
       /\ ~Ran("add") => entityCounter' = entityCounter]_vars

\* an entity was added after a deletion: it is the second entity and carries the
\* number 3
C26_Witness ==
    /\ lastOp.op = "add"
    /\ entityCounter = 3
    /\ Len(entities) = 2
    /\ entities[2].name = NewEntityPrefix \o <<"3">>

\* C27: an add places the new entity on a grid by the number n of entities present
\* before it, offset by the scroll origin of the canvas: x = originX + 50 +
\* (n mod 8) * 60 and y = originY + 50 + floor(n / 8) * 60
C27_GridPlacement ==
    [][Ran("add") =>
            LET n == Len(entities)
                new == entities'[n + 1]
            IN  /\ new.ui.x = scroll.x + 50 + ((n % 8) * 60)
                /\ new.ui.y = scroll.y + 50 + ((n \div 8) * 60)]_vars

\* C28: identifiers are unique and stable: after every step no two entities share an
\* id and no two attributes of one entity share an id, and a step that removes
\* nothing leaves every entity and every attribute the id it had
C28_IdsUniqueAndStable ==
    [][/\ distinctIds(entities')
       /\ \A i \in 1..Len(entities') : distinctIds(entities'[i].attributes)
       /\ Len(entities') >= Len(entities) =>
            \A i \in 1..Len(entities) :
                /\ entities'[i].id = entities[i].id
                /\ Len(entities'[i].attributes) >= Len(entities[i].attributes) =>
                        \A k \in 1..Len(entities[i].attributes) :
                            entities'[i].attributes[k].id = entities[i].attributes[k].id]_vars

\* C29: after every step the selected entity id is null or the id of an entity of
\* the model; deleting the selected entity, a successful load and an accepted AI
\* design leave no entity selected, and a deletion changes the selection in no
\* other way
C29_SelectionValid ==
    [][/\ (selectedEntityId' = NullId
            \/ \E i \in 1..Len(entities') : entities'[i].id = selectedEntityId')
       /\ (Ran("delete") /\ lastOp'.ok) => selectedEntityId' \in {NullId, selectedEntityId}
       /\ (Ran("delete") /\ lastOp'.ok /\ selectedEntity # None
                /\ Len(entities') < Len(entities)
                /\ \A i \in 1..Len(entities') : entities'[i].id # selectedEntityId)
            => selectedEntityId' = NullId
       /\ (Ran("load") /\ lastOp'.ok) => selectedEntityId' = NullId
       /\ (Ran("settle") /\ lastOp'.ok /\ lastOp'.arg[1] = "design")
            => selectedEntityId' = NullId]_vars

\* an AI design with an entity was accepted and nothing is selected
C29_Witness ==
    /\ lastOp.op = "settle"
    /\ lastOp.ok
    /\ lastOp.arg = <<"design", "designed">>
    /\ Len(entities) > 0
    /\ entities[1].id < 0
    /\ selectedEntityId = NullId

====
